---- MODULE Spec2Model ----
(***************************************************************************)
(* Classification-and-validation engine of dotagent:                       *)
(*   src/src/type-detector.ts  (detectAbstractionType and its helpers)     *)
(*   src/src/validators.ts     (the four category validators, the          *)
(*                              dispatcher validateAnyAbstraction and the  *)
(*                              group validator validateAbstractionGroup)  *)
(*   src/src/wrapper/sync-manager.ts (validateConfig, a caller)            *)
(*                                                                         *)
(* JavaScript strings on which the code performs string operations         *)
(* (includes, startsWith, trim, regular expressions) are sequences of      *)
(* one-character strings.  Optional metadata fields are modelled by the    *)
(* domain of the metadata function: a field is undefined exactly when it   *)
(* is not in DOMAIN.  Numbers in [0,1] are integers counting thousandths.  *)
(* A call either returns a value or throws; both are outcomes.             *)
(***************************************************************************)
EXTENDS Integers, Sequences, FiniteSets, TLC

VARIABLES
  metadata, content, abstractions,  \* the arguments of a call
  called, result, previous,         \* the function called and its outcome
  dependencyGraph, cursor, frames, visitedSet, recursionSet, cycleFound,
                                    \* the dependency traversal
  commands, aliases, argument       \* a CommandRegistry and the argument of a call on it

\* the state of the traversal inside validateAbstractionGroup
traversalVars == <<dependencyGraph, cursor, frames, visitedSet, recursionSet, cycleFound>>

\* the state of a CommandRegistry
registryVars == <<commands, aliases, argument>>

vars == <<metadata, content, abstractions, called, result, previous,
          traversalVars, registryVars>>

(***************************************************************************)
(* Bounds of the explored input space.                                     *)
(***************************************************************************)
MaxPhrases == 2
MaxDocs == 3
MaxDeps == 1

(***************************************************************************)
(* Characters and the string primitives of the JavaScript runtime.         *)
(***************************************************************************)
UpperLetters ==
  <<"A","B","C","D","E","F","G","H","I","J","K","L","M",
    "N","O","P","Q","R","S","T","U","V","W","X","Y","Z">>

LowerLetters ==
  <<"a","b","c","d","e","f","g","h","i","j","k","l","m",
    "n","o","p","q","r","s","t","u","v","w","x","y","z">>

UpperSet == {UpperLetters[i] : i \in 1..26}

LowerSet == {LowerLetters[i] : i \in 1..26}

Digits == {"0","1","2","3","4","5","6","7","8","9"}

IsUpper(c) == c \in UpperSet

IsLower(c) == c \in LowerSet

IsLetter(c) == IsUpper(c) \/ IsLower(c)

IsDigit(c) == c \in Digits

\* \s of a JavaScript regular expression, restricted to the characters used
IsSpace(c) == c \in {" ", "\n", "\t", "\r"}

LineTerminator(c) == c \in {"\n", "\r"}

LowerOf == [c \in UpperSet |-> LowerLetters[CHOOSE i \in 1..26 : UpperLetters[i] = c]]

ToLowerChar(c) == IF IsUpper(c) THEN LowerOf[c] ELSE c

\* String.prototype.toLowerCase
RECURSIVE ToLowerCase(_)
ToLowerCase(s) ==
  IF s = <<>> THEN <<>> ELSE <<ToLowerChar(Head(s))>> \o ToLowerCase(Tail(s))

\* pattern p occurs in s starting at index i (1-based)
MatchAt(s, p, i) ==
  /\ i >= 1
  /\ i + Len(p) - 1 <= Len(s)
  /\ \A j \in 1..Len(p) : s[i + j - 1] = p[j]

\* String.prototype.includes
Includes(s, p) == \E i \in 1..(Len(s) - Len(p) + 1) : MatchAt(s, p, i)

\* String.prototype.startsWith
StartsWith(s, p) == MatchAt(s, p, 1)

\* String.prototype.trim() === ''
TrimIsEmpty(s) == \A i \in 1..Len(s) : IsSpace(s[i])

RECURSIVE CountFrom(_, _, _)
CountFrom(s, p, i) ==
  IF i + Len(p) - 1 > Len(s) THEN 0
  ELSE IF MatchAt(s, p, i) THEN 1 + CountFrom(s, p, i + Len(p))
  ELSE CountFrom(s, p, i + 1)

\* (s.match(new RegExp(p, 'g')) || []).length for a pattern without
\* metacharacters: the number of non-overlapping occurrences, left to right
MatchCount(s, p) == CountFrom(s, p, 1)

\* Array.prototype.some over a list of literal patterns
SomeIncluded(s, patterns) == \E k \in 1..Len(patterns) : Includes(s, patterns[k])

Min(a, b) == IF a <= b THEN a ELSE b

Max(a, b) == IF a >= b THEN a ELSE b

\* Array.prototype.slice(0, n)
Slice(s, n) == SubSeq(s, 1, Min(n, Len(s)))

\* a metadata field is defined
Has(m, k) == k \in DOMAIN m

\* const name = value; ...rest: the value is computed once and named in rest
Let(value, rest(_)) == rest(value)

SKILL_KEYWORDS ==
  <<
    <<"h","o","w"," ","t","o">>,   \* 'how to'
    <<"p","a","t","t","e","r","n",":">>,   \* 'pattern:'
    <<"e","x","a","m","p","l","e",":">>,   \* 'example:'
    <<"b","e","s","t"," ","p","r","a","c","t","i","c","e">>,   \* 'best practice'
    <<"a","p","p","r","o","a","c","h">>,   \* 'approach'
    <<"w","h","e","n"," ","w","o","r","k","i","n","g"," ","w","i","t","h">>,   \* 'when working with'
    <<"t","e","c","h","n","i","q","u","e">>,   \* 'technique'
    <<"m","e","t","h","o","d">>,   \* 'method'
    <<"s","t","r","a","t","e","g","y">>,   \* 'strategy'
    <<"r","e","m","e","m","b","e","r">>,   \* 'remember'
    <<"c","o","n","s","i","d","e","r">>,   \* 'consider'
    <<"n","o","t","e"," ","t","h","a","t">>,   \* 'note that'
    <<"k","e","e","p"," ","i","n"," ","m","i","n","d">>,   \* 'keep in mind'
    <<"t","i","p",":">>,   \* 'tip:'
    <<"g","u","i","d","e","l","i","n","e">>,   \* 'guideline'
    <<"r","e","c","o","m","m","e","n","d","a","t","i","o","n">>,   \* 'recommendation'
    <<"p","r","a","c","t","i","c","e">>,   \* 'practice'
    <<"e","x","p","e","r","t","i","s","e">>,   \* 'expertise'
    <<"k","n","o","w","l","e","d","g","e">>,   \* 'knowledge'
    <<"u","n","d","e","r","s","t","a","n","d","i","n","g">>,   \* 'understanding'
    <<"m","a","s","t","e","r","y">>   \* 'mastery'
  >>

SUBAGENT_KEYWORDS ==
  <<
    <<"d","e","l","e","g","a","t","e"," ","t","o">>,   \* 'delegate to'
    <<"h","a","n","d"," ","o","f","f">>,   \* 'hand off'
    <<"s","u","b","-","t","a","s","k">>,   \* 'sub-task'
    <<"s","u","b","t","a","s","k">>,   \* 'subtask'
    <<"s","e","p","a","r","a","t","e"," ","c","o","n","t","e","x","t">>,   \* 'separate context'
    <<"i","n","d","e","p","e","n","d","e","n","t">>,   \* 'independent'
    <<"i","s","o","l","a","t","e","d">>,   \* 'isolated'
    <<"s","p","a","w","n">>,   \* 'spawn'
    <<"c","l","a","u","d","e","-">>,   \* 'claude-'
    <<"g","p","t","-">>,   \* 'gpt-'
    <<"h","a","i","k","u">>,   \* 'haiku'
    <<"s","o","n","n","e","t">>,   \* 'sonnet'
    <<"m","o","d","e","l">>,   \* 'model'
    <<"s","t","e","p"," ","1",":">>,   \* 'step 1:'
    <<"f","i","r","s","t">>,   \* 'first'
    <<"t","h","e","n">>,   \* 'then'
    <<"f","i","n","a","l","l","y">>,   \* 'finally'
    <<"n","e","x","t">>,   \* 'next'
    <<"p","r","o","c","e","d","u","r","e">>,   \* 'procedure'
    <<"w","o","r","k","f","l","o","w">>,   \* 'workflow'
    <<"p","r","o","c","e","s","s">>,   \* 'process'
    <<"p","i","p","e","l","i","n","e">>   \* 'pipeline'
  >>

COMMAND_KEYWORDS ==
  <<
    <<"r","u","n">>,   \* 'run'
    <<"e","x","e","c","u","t","e">>,   \* 'execute'
    <<"t","r","i","g","g","e","r">>,   \* 'trigger'
    <<"i","n","v","o","k","e">>,   \* 'invoke'
    <<"c","a","l","l">>,   \* 'call'
    <<"c","o","m","m","a","n","d">>,   \* 'command'
    <<"c","l","i">>,   \* 'cli'
    <<"s","c","r","i","p","t">>,   \* 'script'
    <<"t","o","o","l">>,   \* 'tool'
    <<"w","h","e","n"," ","u","s","e","r"," ","t","y","p","e","s">>,   \* 'when user types'
    <<"u","s","a","g","e",":">>,   \* 'usage:'
    <<"s","y","n","t","a","x",":">>,   \* 'syntax:'
    <<"a","r","g","u","m","e","n","t">>,   \* 'argument'
    <<"p","a","r","a","m","e","t","e","r">>,   \* 'parameter'
    <<"f","l","a","g">>,   \* 'flag'
    <<"o","p","t","i","o","n">>   \* 'option'
  >>

RULE_KEYWORDS ==
  <<
    <<"a","l","w","a","y","s">>,   \* 'always'
    <<"e","v","e","r","y"," ","t","i","m","e">>,   \* 'every time'
    <<"c","o","n","s","i","s","t","e","n","t","l","y">>,   \* 'consistently'
    <<"n","e","v","e","r">>,   \* 'never'
    <<"y","o","u"," ","a","r","e">>,   \* 'you are'
    <<"y","o","u","r"," ","r","o","l","e"," ","i","s">>,   \* 'your role is'
    <<"b","e","h","a","v","e"," ","a","s">>,   \* 'behave as'
    <<"a","c","t"," ","a","s">>,   \* 'act as'
    <<"s","h","o","u","l","d">>,   \* 'should'
    <<"m","u","s","t">>,   \* 'must'
    <<"a","v","o","i","d">>,   \* 'avoid'
    <<"e","n","s","u","r","e">>,   \* 'ensure'
    <<"r","e","q","u","i","r","e">>,   \* 'require'
    <<"g","l","o","b","a","l">>,   \* 'global'
    <<"u","n","i","v","e","r","s","a","l">>,   \* 'universal'
    <<"d","e","f","a","u","l","t">>,   \* 'default'
    <<"b","a","s","e","l","i","n","e">>   \* 'baseline'
  >>

\* 'slash trigger in metadata'
HINT_SLASH_TRIGGER ==
  <<"s","l","a","s","h"," ","t","r","i","g","g","e","r"," ","i","n"," ","m","e","t","a","d","a","t","a">>

\* 'manual invocation flag'
HINT_MANUAL ==
  <<"m","a","n","u","a","l"," ","i","n","v","o","c","a","t","i","o","n"," ","f","l","a","g">>

\* 'always apply flag suggests rule'
HINT_ALWAYS_APPLY ==
  <<"a","l","w","a","y","s"," ","a","p","p","l","y"," ","f","l","a","g"," ","s","u","g","g","e","s","t","s"," ","r","u","l","e">>

\* 'expertise field suggests skill'
HINT_EXPERTISE ==
  <<"e","x","p","e","r","t","i","s","e"," ","f","i","e","l","d"," ","s","u","g","g","e","s","t","s"," ","s","k","i","l","l">>

\* 'command-related scope'
HINT_COMMAND_SCOPE ==
  <<"c","o","m","m","a","n","d","-","r","e","l","a","t","e","d"," ","s","c","o","p","e">>

\* 'metadata.type: '
HINT_METADATA_TYPE ==
  <<"m","e","t","a","d","a","t","a",".","t","y","p","e",":"," ">>

\* 'slash command syntax'
SLASH_COMMAND_SYNTAX ==
  <<"s","l","a","s","h"," ","c","o","m","m","a","n","d"," ","s","y","n","t","a","x">>
(***************************************************************************)
(* src/src/type-detector.ts                                                *)
(***************************************************************************)
AbstractionTypes == <<"skill", "subagent", "command", "rule">>

\* STRUCTURAL_PATTERNS.numberedList  /^\s*\d+\.\s+/m  and
\* STRUCTURAL_PATTERNS.bulletList    /^\s*[-*]\s+/m :
\* a line start, any white space, the marker, at least one white space
LineStartAt(s, p) == p = 1 \/ (p > 1 /\ LineTerminator(s[p - 1]))

ReachableFromLineStart(s, q) ==
  \E p \in 1..q : LineStartAt(s, p) /\ \A k \in p..(q - 1) : IsSpace(s[k])

NumberedListRegex(s) ==
  \E q \in 1..Len(s) : \E r \in q..Len(s) :
    /\ ReachableFromLineStart(s, q)
    /\ \A k \in q..r : IsDigit(s[k])
    /\ r + 2 <= Len(s)
    /\ s[r + 1] = "."
    /\ IsSpace(s[r + 2])

BulletListRegex(s) ==
  \E q \in 1..Len(s) :
    /\ ReachableFromLineStart(s, q)
    /\ s[q] \in {"-", "*"}
    /\ q + 1 <= Len(s)
    /\ IsSpace(s[q + 1])

\* STRUCTURAL_PATTERNS.slashCommand  /\/[a-zA-Z][a-zA-Z0-9_-]*/
SlashCommandRegex(s) ==
  \E i \in 1..(Len(s) - 1) : s[i] = "/" /\ IsLetter(s[i + 1])

\* the backquote character (the parser accepts no backquote in a string)
Backquote == "BACKQUOTE"

Fence == <<Backquote, Backquote, Backquote>>

\* STRUCTURAL_PATTERNS.codeBlock: three backquotes, any characters (lazily),
\* three backquotes
CodeBlockRegex(s) ==
  \E i \in 1..Len(s) : \E j \in (i + 3)..Len(s) :
    MatchAt(s, Fence, i) /\ MatchAt(s, Fence, j)

\* step\s+\d+ on the lower-cased text
StepNumberAt(l, i) ==
  /\ MatchAt(l, <<"s","t","e","p">>, i)
  /\ \E d \in (i + 5)..Len(l) :
       IsDigit(l[d]) /\ \A k \in (i + 4)..(d - 1) : IsSpace(l[k])

\* STRUCTURAL_PATTERNS.stepPattern  /(?:step\s+\d+|first|then|next|finally)/i
StepPatternRegex(s) ==
  LET l == ToLowerCase(s) IN
    \/ \E i \in 1..Len(l) : StepNumberAt(l, i)
    \/ Includes(l, <<"f","i","r","s","t">>)
    \/ Includes(l, <<"t","h","e","n">>)
    \/ Includes(l, <<"n","e","x","t">>)
    \/ Includes(l, <<"f","i","n","a","l","l","y">>)

\* STRUCTURAL_PATTERNS.examplePattern  /(?:example|e\.g\.|for instance)/i
ExamplePatternRegex(s) ==
  LET l == ToLowerCase(s) IN
    \/ Includes(l, <<"e","x","a","m","p","l","e">>)
    \/ Includes(l, <<"e",".","g",".">>)
    \/ Includes(l, <<"f","o","r"," ","i","n","s","t","a","n","c","e">>)

\* STRUCTURAL_PATTERNS.notePattern  /(?:note:|important:|remember:)/i
NotePatternRegex(s) ==
  LET l == ToLowerCase(s) IN
    \/ Includes(l, <<"n","o","t","e",":">>)
    \/ Includes(l, <<"i","m","p","o","r","t","a","n","t",":">>)
    \/ Includes(l, <<"r","e","m","e","m","b","e","r",":">>)

\* STRUCTURAL_PATTERNS.procedurePattern  /(?:procedure|process|workflow|pipeline)/i
ProcedurePatternRegex(s) ==
  LET l == ToLowerCase(s) IN
    \/ Includes(l, <<"p","r","o","c","e","d","u","r","e">>)
    \/ Includes(l, <<"p","r","o","c","e","s","s">>)
    \/ Includes(l, <<"w","o","r","k","f","l","o","w">>)
    \/ Includes(l, <<"p","i","p","e","l","i","n","e">>)

\* the keys of STRUCTURAL_PATTERNS in declaration order (Object.entries)
STRUCTURAL_PATTERNS ==
  <<"numberedList", "bulletList", "slashCommand", "codeBlock",
    "stepPattern", "examplePattern", "notePattern", "procedurePattern">>

\* pattern.test(content) for the pattern stored under a key
StructuralTest(name, s) ==
  CASE name = "numberedList" -> NumberedListRegex(s)
    [] name = "bulletList" -> BulletListRegex(s)
    [] name = "slashCommand" -> SlashCommandRegex(s)
    [] name = "codeBlock" -> CodeBlockRegex(s)
    [] name = "stepPattern" -> StepPatternRegex(s)
    [] name = "examplePattern" -> ExamplePatternRegex(s)
    [] name = "notePattern" -> NotePatternRegex(s)
    [] name = "procedurePattern" -> ProcedurePatternRegex(s)

\* the keywords of a list that occur in the lower-cased content, in list order
MatchedKeywords(keywords, lowerContent) ==
  LET hit(k) == Includes(lowerContent, k) IN SelectSeq(keywords, hit)

SeqRange(s) == {s[i] : i \in 1..Len(s)}

analyzeRuleContent(text) ==
  LET lowerContent == ToLowerCase(text)
      skillPatterns == MatchedKeywords(SKILL_KEYWORDS, lowerContent)
      subagentPatterns == MatchedKeywords(SUBAGENT_KEYWORDS, lowerContent)
      commandKeywords == MatchedKeywords(COMMAND_KEYWORDS, lowerContent)
      rulePatterns == MatchedKeywords(RULE_KEYWORDS, lowerContent)
      matched == SeqRange(skillPatterns) \cup SeqRange(subagentPatterns)
                   \cup SeqRange(commandKeywords) \cup SeqRange(rulePatterns)
      test(name) == StructuralTest(name, text)
  IN [ skillPatterns |-> skillPatterns,
       subagentPatterns |-> subagentPatterns,
       commandPatterns |->
         IF SlashCommandRegex(text)
         THEN Append(commandKeywords, SLASH_COMMAND_SYNTAX)
         ELSE commandKeywords,
       rulePatterns |-> rulePatterns,
       structuralFeatures |-> SelectSeq(STRUCTURAL_PATTERNS, test),
       keywordDensity |-> [k \in matched |-> MatchCount(lowerContent, k)] ]

\* a JavaScript value is truthy; values are tagged [kind, val]
\* (kind "string": val is the characters; kind "array": val is the elements)
Truthy(v) == ~(v.kind = "string" /\ v.val = <<>>)

\* metadata.<field> is defined and truthy, for a tagged field
HasTruthy(m, k) == Has(m, k) /\ Truthy(m[k])

\* metadata.type is truthy (a non-empty string)
HasType(m) == Has(m, "type") /\ m["type"] # ""

\* Array.isArray(scope) ? scope : [scope]
ScopeList(scope) == IF scope.kind = "array" THEN scope.val ELSE <<scope.val>>

analyzeMetadata(m) ==
  IF HasType(m)
  THEN [ hasExplicitType |-> TRUE,
         explicitType |-> m["type"],
         typeHints |-> <<HINT_METADATA_TYPE>>,
         confidence |-> 1000,
         conflictingSignals |-> <<>> ]
  ELSE
    LET slash == Has(m, "triggers")
                 /\ \E i \in 1..Len(m["triggers"]) : StartsWith(m["triggers"][i], <<"/">>)
        manual == Has(m, "manual") /\ m["manual"] = TRUE
        always == Has(m, "alwaysApply") /\ m["alwaysApply"] = TRUE
        expert == HasTruthy(m, "expertise") /\ Len(m["expertise"].val) > 0
        cmdScope == HasTruthy(m, "scope")
                    /\ \E i \in 1..Len(ScopeList(m["scope"])) :
                         \/ Includes(ScopeList(m["scope"])[i], <<"c","o","m","m","a","n","d">>)
                         \/ Includes(ScopeList(m["scope"])[i], <<"c","l","i">>)
        \* confidence = Math.max(confidence, x), once per signal, from 0
        confidence ==
          Max(Max(Max(Max(Max(0, IF slash THEN 800 ELSE 0),
                          IF manual THEN 600 ELSE 0),
                      IF always THEN 700 ELSE 0),
                  IF expert THEN 800 ELSE 0),
              IF cmdScope THEN 600 ELSE 0)
    IN [ hasExplicitType |-> FALSE,
         explicitType |-> "",
         typeHints |->
           (IF slash THEN <<HINT_SLASH_TRIGGER>> ELSE <<>>)
           \o (IF manual THEN <<HINT_MANUAL>> ELSE <<>>)
           \o (IF always THEN <<HINT_ALWAYS_APPLY>> ELSE <<>>)
           \o (IF expert THEN <<HINT_EXPERTISE>> ELSE <<>>)
           \o (IF cmdScope THEN <<HINT_COMMAND_SCOPE>> ELSE <<>>),
         confidence |-> confidence,
         conflictingSignals |->
           IF always /\ manual
           THEN <<"conflicting alwaysApply and manual flags">> ELSE <<>> ]

RECURSIVE TotalDensity(_, _)
TotalDensity(patterns, keywordDensity) ==
  IF patterns = <<>> THEN 0
  ELSE LET p == Head(patterns)
           d == IF p \in DOMAIN keywordDensity /\ keywordDensity[p] # 0
                THEN keywordDensity[p] ELSE 1
       IN d + TotalDensity(Tail(patterns), keywordDensity)

\* calculateContentScore without the cap of 0.7 on the pattern part
calculateContentScore_UncappedPatterns(patterns, keywordDensity) ==
  IF Len(patterns) = 0 THEN 0
  ELSE LET score == Len(patterns) * 150
           densityBoost == Min(TotalDensity(patterns, keywordDensity) * 50, 300)
       IN Min(score + densityBoost, 1000)

calculateContentScore(patterns, keywordDensity) ==
  IF Len(patterns) = 0 THEN 0
  ELSE LET score == Min(Len(patterns) * 150, 700)
           densityBoost == Min(TotalDensity(patterns, keywordDensity) * 50, 300)
       IN Min(score + densityBoost, 1000)

\* typeHints.some(hint => hint.includes(word))
SomeHintIncludes(typeHints, word) ==
  \E i \in 1..Len(typeHints) : Includes(typeHints[i], word)

\* the scores before normalisation: content score, structural boosts,
\* metadata boosts (metadataBoost = confidence * 0.3, in thousandths)
RawScores(contentAnalysis, metadataAnalysis) ==
  LET f == SeqRange(contentAnalysis.structuralFeatures)
      d == contentAnalysis.keywordDensity
      metadataBoost == (metadataAnalysis.confidence * 3) \div 10
      h(word) == SomeHintIncludes(metadataAnalysis.typeHints, word)
  IN [ skill |->
         calculateContentScore(contentAnalysis.skillPatterns, d)
         + (IF "examplePattern" \in f \/ "notePattern" \in f THEN 200 ELSE 0)
         + (IF h(<<"e","x","p","e","r","t","i","s","e">>) THEN metadataBoost ELSE 0),
       subagent |->
         calculateContentScore(contentAnalysis.subagentPatterns, d)
         + (IF "stepPattern" \in f \/ "procedurePattern" \in f THEN 300 ELSE 0)
         + (IF "numberedList" \in f THEN 200 ELSE 0),
       command |->
         calculateContentScore(contentAnalysis.commandPatterns, d)
         + (IF "slashCommand" \in f THEN 400 ELSE 0)
         + (IF h(<<"t","r","i","g","g","e","r">>) THEN metadataBoost ELSE 0)
         + (IF h(<<"m","a","n","u","a","l">>) THEN metadataBoost \div 2 ELSE 0),
       rule |->
         calculateContentScore(contentAnalysis.rulePatterns, d)
         + (IF h(<<"a","l","w","a","y","s"," ","a","p","p","l","y">>) THEN metadataBoost ELSE 0) ]

MaxOfScores(scores) ==
  Max(Max(scores.skill, scores.subagent), Max(scores.command, scores.rule))

\* Every raw score is a multiple of 0.005, so thousandths hold it up to the
\* half boost of 0.105; a normalised score is kept in thousandths rounded
\* down, which is exact for the only comparisons made on it (with the
\* maximum, 1.0, and with the floor 0.3 of the rule score).
Normalized(x, maxRawScore) ==
  IF maxRawScore > 0 THEN Min((x * 1000) \div maxRawScore, 1000) ELSE x

\* calculateTypeScores without the final floor on the rule score
calculateTypeScores_NoFloor(contentAnalysis, metadataAnalysis) ==
  Let(RawScores(contentAnalysis, metadataAnalysis), LAMBDA raw :
  Let(MaxOfScores(raw), LAMBDA maxRawScore :
    [ skill |-> Normalized(raw.skill, maxRawScore),
      subagent |-> Normalized(raw.subagent, maxRawScore),
      command |-> Normalized(raw.command, maxRawScore),
      rule |-> Normalized(raw.rule, maxRawScore) ]))

\* calculateTypeScores without the division by the maximum
calculateTypeScores_NotNormalized(contentAnalysis, metadataAnalysis) ==
  Let(RawScores(contentAnalysis, metadataAnalysis), LAMBDA raw :
    [ skill |-> Min(raw.skill, 1000),
      subagent |-> Min(raw.subagent, 1000),
      command |-> Min(raw.command, 1000),
      rule |-> Max(Min(raw.rule, 1000), 300) ])

calculateTypeScores(contentAnalysis, metadataAnalysis) ==
  Let(RawScores(contentAnalysis, metadataAnalysis), LAMBDA raw :
  Let(MaxOfScores(raw), LAMBDA maxRawScore :
    [ skill |-> Normalized(raw.skill, maxRawScore),
      subagent |-> Normalized(raw.subagent, maxRawScore),
      command |-> Normalized(raw.command, maxRawScore),
      rule |-> Max(Normalized(raw.rule, maxRawScore), 300) ]))

Indicator(prefix, name, text) == [prefix |-> prefix, name |-> name, text |-> text]

PatternsOf(contentAnalysis, type) ==
  CASE type = "skill" -> contentAnalysis.skillPatterns
    [] type = "subagent" -> contentAnalysis.subagentPatterns
    [] type = "command" -> contentAnalysis.commandPatterns
    [] type = "rule" -> contentAnalysis.rulePatterns

gatherIndicators(detectedType, contentAnalysis, metadataAnalysis) ==
  LET pats == Slice(PatternsOf(contentAnalysis, detectedType), 3)
      relevant(feature) ==
        CASE detectedType = "command" -> feature = "slashCommand"
          [] detectedType = "subagent" ->
               feature \in {"stepPattern", "procedurePattern", "numberedList"}
          [] detectedType = "skill" -> feature \in {"examplePattern", "notePattern"}
          [] OTHER -> FALSE
      relevantStructural == SelectSeq(contentAnalysis.structuralFeatures, relevant)
      hints == Slice(metadataAnalysis.typeHints, 2)
      indicators ==
        [i \in 1..Len(pats) |-> Indicator("pattern", detectedType, pats[i])]
        \o [i \in 1..Len(relevantStructural) |->
              Indicator("structural", relevantStructural[i], <<>>)]
        \o [i \in 1..Len(hints) |-> Indicator("hint", "", hints[i])]
  IN Slice(indicators, 5)

\* outcomes of a call
Return(v) == [kind |-> "return", value |-> v, error |-> ""]

Throw(e) == [kind |-> "throw", value |-> <<>>, error |-> e]

\* JavaScript values handed in for metadata and content
IsObject(m) == m.kind = "object"

IsString(c) == c.kind = "string"

\* the last category, instead of the first, whose score is the maximum
FirstWithScore_Last(scores, maxScore) ==
  AbstractionTypes[CHOOSE i \in 1..4 :
                     /\ scores[AbstractionTypes[i]] = maxScore
                     /\ \A j \in (i + 1)..4 : scores[AbstractionTypes[j]] # maxScore]

\* detectAbstractionType on a metadata map and a string content
\* Object.keys(scores).find(type => scores[type] === maxScore)
FirstWithScore(scores, maxScore) ==
  AbstractionTypes[CHOOSE i \in 1..4 :
                     /\ scores[AbstractionTypes[i]] = maxScore
                     /\ \A j \in 1..(i - 1) : scores[AbstractionTypes[j]] # maxScore]

\* detectAbstractionType with the short circuit on an explicit type disabled
detectType_NoShortCircuit(m, text) ==
  Let(analyzeMetadata(m), LAMBDA metadataAnalysis :
  Let(analyzeRuleContent(text), LAMBDA contentAnalysis :
  Let(calculateTypeScores(contentAnalysis, metadataAnalysis), LAMBDA scores :
  Let(MaxOfScores(scores), LAMBDA maxScore :
  Let(FirstWithScore(scores, maxScore), LAMBDA detectedType :
    [ type |-> detectedType,
      confidence |-> IF detectedType = "rule" THEN Max(maxScore, 500) ELSE maxScore,
      indicators |->
        gatherIndicators(detectedType, contentAnalysis, metadataAnalysis) ])))))

detectType(m, text) ==
  Let(analyzeMetadata(m), LAMBDA metadataAnalysis :
    IF metadataAnalysis.hasExplicitType /\ metadataAnalysis.confidence > 900
    THEN [ type |-> metadataAnalysis.explicitType,
           confidence |-> metadataAnalysis.confidence,
           indicators |->
             <<Indicator("explicit type", metadataAnalysis.explicitType, <<>>)>>
             \o [i \in 1..Len(metadataAnalysis.typeHints) |->
                   Indicator("hint", metadataAnalysis.explicitType,
                             metadataAnalysis.typeHints[i])] ]
    ELSE
      Let(analyzeRuleContent(text), LAMBDA contentAnalysis :
      Let(calculateTypeScores(contentAnalysis, metadataAnalysis), LAMBDA scores :
      Let(MaxOfScores(scores), LAMBDA maxScore :
      Let(FirstWithScore(scores, maxScore), LAMBDA detectedType :
        [ type |-> detectedType,
          confidence |-> IF detectedType = "rule" THEN Max(maxScore, 500) ELSE maxScore,
          indicators |->
            gatherIndicators(detectedType, contentAnalysis, metadataAnalysis) ])))))

\* detectAbstractionType(rule) for rule = { metadata, content } as passed by
\* a JavaScript caller: reading a property of null or undefined throws
detectAbstractionType(rule) ==
  IF ~IsObject(rule.metadata) THEN Throw("TypeError")
  ELSE IF HasType(rule.metadata.fields) THEN Return(detectType(rule.metadata.fields, <<>>))
  ELSE IF ~IsString(rule.content) THEN Throw("TypeError")
  ELSE Return(detectType(rule.metadata.fields, rule.content.val))

knowledgePatterns ==
  <<
    <<"h","o","w"," ","t","o">>,   \* 'how to'
    <<"b","e","s","t"," ","p","r","a","c","t","i","c","e">>,   \* 'best practice'
    <<"p","a","t","t","e","r","n",":">>,   \* 'pattern:'
    <<"e","x","a","m","p","l","e",":">>,   \* 'example:'
    <<"t","e","c","h","n","i","q","u","e">>,   \* 'technique'
    <<"a","p","p","r","o","a","c","h">>,   \* 'approach'
    <<"m","e","t","h","o","d">>,   \* 'method'
    <<"s","t","r","a","t","e","g","y">>,   \* 'strategy'
    <<"r","e","m","e","m","b","e","r">>,   \* 'remember'
    <<"c","o","n","s","i","d","e","r">>,   \* 'consider'
    <<"t","i","p",":">>,   \* 'tip:'
    <<"g","u","i","d","e","l","i","n","e">>,   \* 'guideline'
    <<"r","e","c","o","m","m","e","n","d","a","t","i","o","n">>   \* 'recommendation'
  >>

isolationPatterns ==
  <<
    <<"d","e","l","e","g","a","t","e"," ","t","o">>,   \* 'delegate to'
    <<"h","a","n","d"," ","o","f","f">>,   \* 'hand off'
    <<"s","e","p","a","r","a","t","e"," ","c","o","n","t","e","x","t">>,   \* 'separate context'
    <<"i","n","d","e","p","e","n","d","e","n","t">>,   \* 'independent'
    <<"i","s","o","l","a","t","e","d">>,   \* 'isolated'
    <<"s","p","a","w","n">>,   \* 'spawn'
    <<"s","u","b","p","r","o","c","e","s","s">>   \* 'subprocess'
  >>

proceduralPatterns ==
  <<
    <<"s","t","e","p"," ","1",":">>,   \* 'step 1:'
    <<"s","t","e","p"," ","2",":">>,   \* 'step 2:'
    <<"f","i","r","s","t">>,   \* 'first'
    <<"t","h","e","n">>,   \* 'then'
    <<"n","e","x","t">>,   \* 'next'
    <<"f","i","n","a","l","l","y">>,   \* 'finally'
    <<"p","r","o","c","e","d","u","r","e">>,   \* 'procedure'
    <<"w","o","r","k","f","l","o","w">>,   \* 'workflow'
    <<"p","r","o","c","e","s","s">>,   \* 'process'
    <<"p","i","p","e","l","i","n","e">>,   \* 'pipeline'
    <<"d","e","l","e","g","a","t","e">>,   \* 'delegate'
    <<"h","a","n","d"," ","o","f","f">>,   \* 'hand off'
    <<"s","u","b","-","t","a","s","k">>,   \* 'sub-task'
    <<"s","u","b","t","a","s","k">>   \* 'subtask'
  >>

instructionPatterns ==
  <<
    <<"r","u","n">>,   \* 'run'
    <<"e","x","e","c","u","t","e">>,   \* 'execute'
    <<"t","r","i","g","g","e","r">>,   \* 'trigger'
    <<"i","n","v","o","k","e">>,   \* 'invoke'
    <<"c","a","l","l">>,   \* 'call'
    <<"u","s","a","g","e",":">>,   \* 'usage:'
    <<"s","y","n","t","a","x",":">>,   \* 'syntax:'
    <<"w","h","e","n"," ","u","s","e","r"," ","t","y","p","e","s">>,   \* 'when user types'
    <<"c","o","m","m","a","n","d">>   \* 'command'
  >>

alwaysPatterns ==
  <<
    <<"a","l","w","a","y","s"," ","a","p","p","l","y">>,   \* 'always apply'
    <<"e","v","e","r","y"," ","t","i","m","e">>,   \* 'every time'
    <<"c","o","n","s","i","s","t","e","n","t","l","y">>,   \* 'consistently'
    <<"b","a","s","e","l","i","n","e">>,   \* 'baseline'
    <<"g","l","o","b","a","l">>   \* 'global'
  >>

rulePatterns ==
  <<
    <<"a","l","w","a","y","s">>,   \* 'always'
    <<"n","e","v","e","r">>,   \* 'never'
    <<"s","h","o","u","l","d">>,   \* 'should'
    <<"m","u","s","t">>,   \* 'must'
    <<"a","v","o","i","d">>,   \* 'avoid'
    <<"e","n","s","u","r","e">>,   \* 'ensure'
    <<"y","o","u"," ","a","r","e">>,   \* 'you are'
    <<"y","o","u","r"," ","r","o","l","e"," ","i","s">>,   \* 'your role is'
    <<"b","e","h","a","v","e"," ","a","s">>,   \* 'behave as'
    <<"a","c","t"," ","a","s">>,   \* 'act as'
    <<"c","o","n","s","i","s","t","e","n","t","l","y">>,   \* 'consistently'
    <<"r","e","q","u","i","r","e">>,   \* 'require'
    <<"p","o","l","i","c","y">>,   \* 'policy'
    <<"g","u","i","d","e","l","i","n","e">>   \* 'guideline'
  >>

(***************************************************************************)
(* src/src/validators.ts                                                   *)
(***************************************************************************)
VALID_MODELS == {"claude-3-5-sonnet", "claude-3-haiku", "gpt-4", "gpt-3.5-turbo"}

VALID_PORTABILITY == {"cross-tool", "claude-only"}

KNOWN_TOOLS ==
  {"bash", "python", "node", "git", "docker", "typescript", "jest", "webpack", "eslint"}

\* A ValidationError / ValidationWarning.  The message is represented by the
\* values interpolated into its template: subject (ids and type names placed
\* in the text), list (the ids joined with ', '), text (an interpolated
\* string on which the code performs string operations), index (the argument
\* index of 'arguments.<index>.<field>', -1 when there is none).
Issue(code, field, severity, subject, list, text, index) ==
  [ code |-> code, field |-> field, severity |-> severity,
    subject |-> subject, list |-> list, text |-> text, index |-> index ]

Error(code, field) == Issue(code, field, "error", <<>>, <<>>, <<>>, -1)

Warning(code, field) == Issue(code, field, "warning", <<>>, <<>>, <<>>, -1)

Suggestion(code, field, actionable) ==
  [code |-> code, field |-> field, actionable |-> actionable]

\* the object literal { valid, errors, warnings, suggestions }
Result(valid, errors, warnings, suggestions) ==
  [valid |-> valid, errors |-> errors, warnings |-> warnings, suggestions |-> suggestions]

If(cond, item) == IF cond THEN <<item>> ELSE <<>>

\* !metadata.<field> for a field holding a plain string
StringFalsy(m, k) == ~Has(m, k) \/ m[k] = ""

\* the pattern '/[a-z]' of triggerPatterns, used as new RegExp(pattern)
SlashLowerRegex(l) ==
  \E i \in 1..(Len(l) - 1) : l[i] = "/" /\ IsLower(l[i + 1])

\* validateSkill with the two expertise tests as independent if statements
validateSkillBody_BothExpertiseErrors(m, text) ==
  LET lowerContent == ToLowerCase(text)
      hasKnowledgePattern == SomeIncluded(lowerContent, knowledgePatterns)
      hasIsolationPattern == SomeIncluded(lowerContent, isolationPatterns)
      hasTriggerPattern ==
        \/ Includes(lowerContent, <<"w","h","e","n"," ","u","s","e","r"," ","t","y","p","e","s">>)
        \/ SlashLowerRegex(lowerContent)
        \/ Includes(lowerContent, <<"t","r","i","g","g","e","r",":">>)
        \/ Includes(lowerContent, <<"c","o","m","m","a","n","d",":">>)
      errors ==
        If(~HasTruthy(m, "expertise"), Error("SKILL_MISSING_EXPERTISE", "expertise"))
        \o If(\/ ~HasTruthy(m, "expertise")
              \/ m["expertise"].kind # "array"
              \/ Len(m["expertise"].val) = 0,
              Error("SKILL_EMPTY_EXPERTISE", "expertise"))
        \o If(~StringFalsy(m, "portability") /\ m["portability"] \notin VALID_PORTABILITY,
              Error("SKILL_INVALID_PORTABILITY", "portability"))
        \o If(hasIsolationPattern, Error("SKILL_ISOLATION_PATTERN", ""))
        \o If(hasTriggerPattern, Error("SKILL_TRIGGER_PATTERN", ""))
      warnings == If(~hasKnowledgePattern, Warning("SKILL_MISSING_KNOWLEDGE", ""))
      suggestions ==
        If(HasTruthy(m, "expertise") /\ Len(m["expertise"].val) = 1,
           Suggestion("SKILL_CATEGORIZE_EXPERTISE", "expertise", TRUE))
        \o If(~Has(m, "examples") \/ Len(m["examples"]) = 0,
              Suggestion("SKILL_ADD_EXAMPLES", "examples", TRUE))
        \o If(StringFalsy(m, "portability"),
              Suggestion("SKILL_SPECIFY_PORTABILITY", "portability", TRUE))
  IN Return(Result(Len(errors) = 0, errors, warnings, suggestions))

validateSkillBody(m, text) ==
  LET lowerContent == ToLowerCase(text)
      hasKnowledgePattern == SomeIncluded(lowerContent, knowledgePatterns)
      hasIsolationPattern == SomeIncluded(lowerContent, isolationPatterns)
      hasTriggerPattern ==
        \/ Includes(lowerContent, <<"w","h","e","n"," ","u","s","e","r"," ","t","y","p","e","s">>)
        \/ SlashLowerRegex(lowerContent)
        \/ Includes(lowerContent, <<"t","r","i","g","g","e","r",":">>)
        \/ Includes(lowerContent, <<"c","o","m","m","a","n","d",":">>)
      errors ==
        (IF ~HasTruthy(m, "expertise")
         THEN <<Error("SKILL_MISSING_EXPERTISE", "expertise")>>
         ELSE IF m["expertise"].kind # "array" \/ Len(m["expertise"].val) = 0
         THEN <<Error("SKILL_EMPTY_EXPERTISE", "expertise")>>
         ELSE <<>>)
        \o If(~StringFalsy(m, "portability") /\ m["portability"] \notin VALID_PORTABILITY,
              Error("SKILL_INVALID_PORTABILITY", "portability"))
        \o If(hasIsolationPattern, Error("SKILL_ISOLATION_PATTERN", ""))
        \o If(hasTriggerPattern, Error("SKILL_TRIGGER_PATTERN", ""))
      warnings == If(~hasKnowledgePattern, Warning("SKILL_MISSING_KNOWLEDGE", ""))
      suggestions ==
        If(HasTruthy(m, "expertise") /\ Len(m["expertise"].val) = 1,
           Suggestion("SKILL_CATEGORIZE_EXPERTISE", "expertise", TRUE))
        \o If(~Has(m, "examples") \/ Len(m["examples"]) = 0,
              Suggestion("SKILL_ADD_EXAMPLES", "examples", TRUE))
        \o If(StringFalsy(m, "portability"),
              Suggestion("SKILL_SPECIFY_PORTABILITY", "portability", TRUE))
  IN Return(Result(Len(errors) = 0, errors, warnings, suggestions))

\* validateSkill(metadata, content); reading a property of a null metadata
\* or calling toLowerCase on a non-string content throws a TypeError
validateSkill(m, c) ==
  IF ~IsObject(m) \/ ~IsString(c) THEN Throw("TypeError")
  ELSE validateSkillBody(m.fields, c.val)

\* validateSubAgent with the model test pushing to warnings rather than errors
validateSubAgentBody_ModelWarning(m, text) ==
  LET lowerContent == ToLowerCase(text)
      hasProceduralPattern == SomeIncluded(lowerContent, proceduralPatterns)
      unknown(tool) == tool \notin KNOWN_TOOLS
      invalidTools == IF Has(m, "tools") THEN SelectSeq(m["tools"], unknown) ELSE <<>>
      errors ==
        (IF ~Has(m, "isolatedContext")
         THEN <<Error("SUBAGENT_MISSING_ISOLATION", "isolatedContext")>>
         ELSE IF m["isolatedContext"] # TRUE
         THEN <<Error("SUBAGENT_FALSE_ISOLATION", "isolatedContext")>>
         ELSE <<>>)
        \o If(Has(m, "alwaysApply") /\ m["alwaysApply"] = TRUE,
              Error("SUBAGENT_RULE_CONFLICT", "alwaysApply"))
      warnings ==
        If(~StringFalsy(m, "model") /\ m["model"] \notin VALID_MODELS,
           Warning("SUBAGENT_INVALID_MODEL", "model"))
        \o If(Len(invalidTools) > 0,
           Issue("SUBAGENT_INVALID_TOOLS", "tools", "warning", <<>>, invalidTools, <<>>, -1))
        \o If(~hasProceduralPattern, Warning("SUBAGENT_MISSING_PROCEDURAL", ""))
      suggestions ==
        (IF StringFalsy(m, "model")
         THEN <<Suggestion("SUBAGENT_SPECIFY_MODEL", "model", TRUE)>>
         ELSE IF m["model"] = "claude-3-haiku"
         THEN <<Suggestion("SUBAGENT_HAIKU_USAGE", "model", FALSE)>>
         ELSE <<>>)
        \o If(StringFalsy(m, "systemPrompt"),
              Suggestion("SUBAGENT_ADD_SYSTEM_PROMPT", "systemPrompt", TRUE))
        \o If(Has(m, "tools") /\ Len(m["tools"]) > 5,
              Suggestion("SUBAGENT_TOO_MANY_TOOLS", "tools", TRUE))
  IN \* lines 344-357: the else branch of the tools test evaluates
     \* skill.description, and no binding named skill is in scope
     IF Has(m, "tools") /\ Len(m["tools"]) > 5
     THEN Return(Result(Len(errors) = 0, errors, warnings, suggestions))
     ELSE Throw("ReferenceError")

validateSubAgentBody(m, text) ==
  LET lowerContent == ToLowerCase(text)
      hasProceduralPattern == SomeIncluded(lowerContent, proceduralPatterns)
      unknown(tool) == tool \notin KNOWN_TOOLS
      invalidTools == IF Has(m, "tools") THEN SelectSeq(m["tools"], unknown) ELSE <<>>
      errors ==
        (IF ~Has(m, "isolatedContext")
         THEN <<Error("SUBAGENT_MISSING_ISOLATION", "isolatedContext")>>
         ELSE IF m["isolatedContext"] # TRUE
         THEN <<Error("SUBAGENT_FALSE_ISOLATION", "isolatedContext")>>
         ELSE <<>>)
        \o If(~StringFalsy(m, "model") /\ m["model"] \notin VALID_MODELS,
              Error("SUBAGENT_INVALID_MODEL", "model"))
        \o If(Has(m, "alwaysApply") /\ m["alwaysApply"] = TRUE,
              Error("SUBAGENT_RULE_CONFLICT", "alwaysApply"))
      warnings ==
        If(Len(invalidTools) > 0,
           Issue("SUBAGENT_INVALID_TOOLS", "tools", "warning", <<>>, invalidTools, <<>>, -1))
        \o If(~hasProceduralPattern, Warning("SUBAGENT_MISSING_PROCEDURAL", ""))
      suggestions ==
        (IF StringFalsy(m, "model")
         THEN <<Suggestion("SUBAGENT_SPECIFY_MODEL", "model", TRUE)>>
         ELSE IF m["model"] = "claude-3-haiku"
         THEN <<Suggestion("SUBAGENT_HAIKU_USAGE", "model", FALSE)>>
         ELSE <<>>)
        \o If(StringFalsy(m, "systemPrompt"),
              Suggestion("SUBAGENT_ADD_SYSTEM_PROMPT", "systemPrompt", TRUE))
        \o If(Has(m, "tools") /\ Len(m["tools"]) > 5,
              Suggestion("SUBAGENT_TOO_MANY_TOOLS", "tools", TRUE))
  IN \* lines 344-357: the else branch of the tools test evaluates
     \* skill.description, and no binding named skill is in scope
     IF Has(m, "tools") /\ Len(m["tools"]) > 5
     THEN Return(Result(Len(errors) = 0, errors, warnings, suggestions))
     ELSE Throw("ReferenceError")

validateSubAgent(m, c) ==
  IF ~IsObject(m) \/ ~IsString(c) THEN Throw("TypeError")
  ELSE validateSubAgentBody(m.fields, c.val)

\* !metadata.trigger
TriggerFalsy(m) == ~Has(m, "trigger") \/ m["trigger"] = <<>>

\* /^\/[a-zA-Z][a-zA-Z0-9_-]*$/
TriggerRegex(t) ==
  /\ Len(t) >= 2
  /\ t[1] = "/"
  /\ IsLetter(t[2])
  /\ \A i \in 3..Len(t) : IsLetter(t[i]) \/ IsDigit(t[i]) \/ t[i] \in {"_", "-"}

\* the errors pushed by metadata.arguments.forEach for the argument at
\* (0-based) index
ArgumentErrors(arg, index) ==
  If(~Has(arg, "name") \/ arg["name"] = "",
     Issue("COMMAND_INVALID_ARGUMENTS", "arguments.name", "error", <<>>, <<>>, <<>>, index))
  \o If(~Has(arg, "type") \/ arg["type"] \notin {"string", "number", "boolean", "file"},
        Issue("COMMAND_INVALID_ARGUMENTS", "arguments.type", "error",
              IF Has(arg, "type") THEN <<arg["type"]>> ELSE <<>>, <<>>, <<>>, index))
  \o If(~Has(arg, "required"),
        Issue("COMMAND_INVALID_ARGUMENTS", "arguments.required", "error", <<>>, <<>>, <<>>, index))

RECURSIVE AllArgumentErrors(_, _)
AllArgumentErrors(args, done) ==
  IF done = Len(args) THEN <<>>
  ELSE ArgumentErrors(args[done + 1], done) \o AllArgumentErrors(args, done + 1)

validateCommandBody(m, text) ==
  LET lowerContent == ToLowerCase(text)
      hasInstructionPattern == SomeIncluded(lowerContent, instructionPatterns)
      hasAlwaysPattern == SomeIncluded(lowerContent, alwaysPatterns)
      errors ==
        (IF TriggerFalsy(m)
         THEN <<Error("COMMAND_MISSING_TRIGGER", "trigger")>>
         ELSE IF ~StartsWith(m["trigger"], <<"/">>)
         THEN <<Error("COMMAND_INVALID_TRIGGER", "trigger")>>
         ELSE <<>>)
        \o (IF ~Has(m, "userInvoked")
            THEN <<Error("COMMAND_MISSING_USER_INVOKED", "userInvoked")>>
            ELSE IF m["userInvoked"] # TRUE
            THEN <<Error("COMMAND_FALSE_USER_INVOKED", "userInvoked")>>
            ELSE <<>>)
        \o If(~TriggerFalsy(m) /\ ~TriggerRegex(m["trigger"]),
              Error("COMMAND_INVALID_TRIGGER", "trigger"))
        \o (IF Has(m, "arguments") THEN AllArgumentErrors(m["arguments"], 0) ELSE <<>>)
        \o If(hasAlwaysPattern \/ (Has(m, "alwaysApply") /\ m["alwaysApply"] = TRUE),
              Error("COMMAND_ALWAYS_APPLY_PATTERN", ""))
      warnings == If(~hasInstructionPattern, Warning("COMMAND_MISSING_INSTRUCTIONS", ""))
      suggestions ==
        If(~Has(m, "arguments") \/ Len(m["arguments"]) = 0,
           Suggestion("COMMAND_ADD_ARGUMENTS", "arguments", TRUE))
        \o If(/\ ~Includes(text, <<"u","s","a","g","e",":">>)
              /\ ~Includes(text, <<"e","x","a","m","p","l","e",":">>),
              Suggestion("COMMAND_ADD_USAGE_EXAMPLE", "", TRUE))
        \o If(/\ Has(m, "arguments")
              /\ \E i \in 1..Len(m["arguments"]) :
                   Has(m["arguments"][i], "required") /\ m["arguments"][i]["required"] = FALSE
              /\ ~Includes(text, <<"o","p","t","i","o","n","a","l">>),
              Suggestion("COMMAND_DOCUMENT_OPTIONAL_ARGS", "", TRUE))
  IN \* lines 376-396: a trigger that starts with '/' reaches the third
     \* branch, which evaluates subagent.name with no binding named subagent
     IF ~TriggerFalsy(m) /\ StartsWith(m["trigger"], <<"/">>)
     THEN Throw("ReferenceError")
     ELSE Return(Result(Len(errors) = 0, errors, warnings, suggestions))

validateCommand(m, c) ==
  IF ~IsObject(m) \/ ~IsString(c) THEN Throw("TypeError")
  ELSE validateCommandBody(m.fields, c.val)

\* validateRule rejecting every scope that is not an array
validateRuleBody_ArrayRequired(m, text) ==
  LET lowerContent == ToLowerCase(text)
      hasRulePattern == SomeIncluded(lowerContent, rulePatterns)
      scopes == IF HasTruthy(m, "scope") THEN ScopeList(m["scope"]) ELSE <<>>
      invalidScopes == IF HasTruthy(m, "scope") /\ m["scope"].kind # "array"
                       THEN scopes ELSE SelectSeq(scopes, TrimIsEmpty)
      errors ==
        If(Len(invalidScopes) > 0, Error("RULE_INVALID_SCOPE", "scope"))
        \o If(text = <<>> \/ TrimIsEmpty(text), Error("RULE_MISSING_CONTENT", ""))
      suggestions ==
        If(~hasRulePattern, Suggestion("RULE_ADD_GUIDELINES", "", TRUE))
        \o If(StringFalsy(m, "priority"), Suggestion("RULE_ADD_PRIORITY", "priority", TRUE))
        \o If(StringFalsy(m, "description"),
              Suggestion("RULE_ADD_DESCRIPTION", "description", TRUE))
        \o If(~Has(m, "alwaysApply"),
              Suggestion("RULE_SPECIFY_ALWAYS_APPLY", "alwaysApply", TRUE))
  IN Return(Result(Len(errors) = 0, errors, <<>>, suggestions))

validateRuleBody(m, text) ==
  LET lowerContent == ToLowerCase(text)
      hasRulePattern == SomeIncluded(lowerContent, rulePatterns)
      scopes == IF HasTruthy(m, "scope") THEN ScopeList(m["scope"]) ELSE <<>>
      invalidScopes == SelectSeq(scopes, TrimIsEmpty)
      errors ==
        If(Len(invalidScopes) > 0, Error("RULE_INVALID_SCOPE", "scope"))
        \o If(text = <<>> \/ TrimIsEmpty(text), Error("RULE_MISSING_CONTENT", ""))
      suggestions ==
        If(~hasRulePattern, Suggestion("RULE_ADD_GUIDELINES", "", TRUE))
        \o If(StringFalsy(m, "priority"), Suggestion("RULE_ADD_PRIORITY", "priority", TRUE))
        \o If(StringFalsy(m, "description"),
              Suggestion("RULE_ADD_DESCRIPTION", "description", TRUE))
        \o If(~Has(m, "alwaysApply"),
              Suggestion("RULE_SPECIFY_ALWAYS_APPLY", "alwaysApply", TRUE))
  IN Return(Result(Len(errors) = 0, errors, <<>>, suggestions))

\* validateRule(metadata, content): metadata.scope on a null metadata throws;
\* a null content passes the !content test and then throws at
\* content.toLowerCase()
validateRule(m, c) ==
  IF ~IsObject(m) \/ ~IsString(c) THEN Throw("TypeError")
  ELSE validateRuleBody(m.fields, c.val)

\* const { type: _, ...metadataWithoutType } = metadata
WithoutType(m) == [k \in (DOMAIN m) \ {"type"} |-> m[k]]

\* routeToSpecificValidator with a default branch that falls back to the
\* rule validator
routeToSpecificValidator_DefaultRule(type, m, c) ==
  CASE type = "skill" -> validateSkill(m, c)
    [] type = "subagent" -> validateSubAgent(m, c)
    [] type = "command" -> validateCommand(m, c)
    [] OTHER -> validateRule(m, c)

routeToSpecificValidator(type, m, c) ==
  CASE type = "skill" -> validateSkill(m, c)
    [] type = "subagent" -> validateSubAgent(m, c)
    [] type = "command" -> validateCommand(m, c)
    [] type = "rule" -> validateRule(m, c)
    [] OTHER ->
         Return(Result(FALSE,
                       <<Issue("UNKNOWN_TYPE", "type", "error", <<type>>, <<>>, <<>>, -1)>>,
                       <<>>, <<>>))

\* the mismatch test pushing its issue to result.errors
WithMismatchCheck_ToErrors(m, text, res) ==
  IF HasType(m)
  THEN Let(detectType(WithoutType(m), text), LAMBDA typeInfo :
         IF typeInfo.type # m["type"] /\ typeInfo.confidence > 700
         THEN [res EXCEPT !.errors =
                 Append(@, Issue("ABSTRACTION_TYPE_MISMATCH", "type", "warning",
                                 <<typeInfo.type, m["type"]>>, <<>>, <<>>, -1))]
         ELSE res)
  ELSE res

\* the ABSTRACTION_TYPE_MISMATCH test of lines 664-679, on a returned result
WithMismatchCheck(m, text, res) ==
  IF HasType(m)
  THEN Let(detectType(WithoutType(m), text), LAMBDA typeInfo :
         IF typeInfo.type # m["type"] /\ typeInfo.confidence > 700
         THEN [res EXCEPT !.warnings =
                 Append(@, Issue("ABSTRACTION_TYPE_MISMATCH", "type", "warning",
                                 <<typeInfo.type, m["type"]>>, <<>>, <<>>, -1))]
         ELSE res)
  ELSE res

\* validateAnyAbstraction testing !content instead of content === undefined
\* || content === null
validateAnyAbstraction_FalsyContent(m, c) ==
  IF ~IsObject(m)
  THEN Return(Result(FALSE,
                     <<Issue("MISSING_REQUIRED_FIELD", "", "error", <<"metadata">>, <<>>, <<>>, -1)>>,
                     <<>>, <<>>))
  ELSE IF c.kind \in {"undefined", "null"} \/ ~Truthy(c)
  THEN Return(Result(FALSE,
                     <<Issue("MISSING_REQUIRED_FIELD", "", "error", <<"content">>, <<>>, <<>>, -1)>>,
                     <<>>, <<>>))
  ELSE
    Let(IF HasType(m.fields) THEN m.fields["type"]
        ELSE detectType(m.fields, c.val).type, LAMBDA detectedType :
    Let(routeToSpecificValidator(detectedType, m, c), LAMBDA routed :
      IF routed.kind = "throw" THEN routed
      ELSE Return(WithMismatchCheck(m.fields, c.val, routed.value))))

validateAnyAbstraction(m, c) ==
  IF ~IsObject(m)
  THEN Return(Result(FALSE,
                     <<Issue("MISSING_REQUIRED_FIELD", "", "error", <<"metadata">>, <<>>, <<>>, -1)>>,
                     <<>>, <<>>))
  ELSE IF c.kind \in {"undefined", "null"}
  THEN Return(Result(FALSE,
                     <<Issue("MISSING_REQUIRED_FIELD", "", "error", <<"content">>, <<>>, <<>>, -1)>>,
                     <<>>, <<>>))
  ELSE
    Let(IF HasType(m.fields) THEN m.fields["type"]
        ELSE detectType(m.fields, c.val).type, LAMBDA detectedType :
    Let(routeToSpecificValidator(detectedType, m, c), LAMBDA routed :
      IF routed.kind = "throw" THEN routed
      ELSE Return(WithMismatchCheck(m.fields, c.val, routed.value))))

(***************************************************************************)
(* validateAbstractionGroup.  A JavaScript Map is a sequence of            *)
(* [key, value] entries in insertion order.                                *)
(***************************************************************************)
MapHas(map, k) == \E i \in 1..Len(map) : map[i].key = k

MapIndex(map, k) == CHOOSE i \in 1..Len(map) : map[i].key = k

\* Map.prototype.set: an existing key keeps its position
MapSet(map, k, v) ==
  IF MapHas(map, k)
  THEN [map EXCEPT ![MapIndex(map, k)] = [key |-> k, value |-> v]]
  ELSE Append(map, [key |-> k, value |-> v])

\* the value of a missing property or Map entry
Undefined == "<undefined>"

\* metadata.id
IdOf(m) == IF Has(m, "id") THEN m["id"] ELSE Undefined

\* an id used as a condition
IdTruthy(id) == id # Undefined /\ id # ""

\* commandTriggers.get(trigger)
TriggerGet(map, t) == IF MapHas(map, t) THEN map[MapIndex(map, t)].value ELSE Undefined

\* dependencyGraph.get(nodeId) || []
DepsGet(graph, id) == IF MapHas(graph, id) THEN graph[MapIndex(graph, id)].value ELSE <<>>

\* the forEach iteration without the metadata.type === 'command' test
IndexStep_AnyType(acc, m) ==
  LET graph == IF Has(m, "dependencies")
               THEN MapSet(acc.graph, IdOf(m), m["dependencies"])
               ELSE acc.graph
      isCommand == ~TriggerFalsy(m)
      existingId == IF isCommand THEN TriggerGet(acc.triggers, m["trigger"]) ELSE Undefined
  IN IF ~isCommand THEN [acc EXCEPT !.graph = graph]
     ELSE IF IdTruthy(existingId)
     THEN [ graph |-> graph,
            triggers |-> acc.triggers,
            errors |-> Append(acc.errors,
                              Issue("COMMAND_TRIGGER_CONFLICT", "trigger", "error",
                                    <<existingId>>, <<>>, m["trigger"], -1)) ]
     ELSE [ graph |-> graph,
            triggers |-> MapSet(acc.triggers, m["trigger"], IdOf(m)),
            errors |-> acc.errors ]

\* one iteration of abstractions.forEach (lines 730-755) on the accumulated
\* [graph, triggers, errors]
IndexStep(acc, m) ==
  LET graph == IF Has(m, "dependencies")
               THEN MapSet(acc.graph, IdOf(m), m["dependencies"])
               ELSE acc.graph
      isCommand == Has(m, "type") /\ m["type"] = "command" /\ ~TriggerFalsy(m)
      existingId == IF isCommand THEN TriggerGet(acc.triggers, m["trigger"]) ELSE Undefined
  IN IF ~isCommand THEN [acc EXCEPT !.graph = graph]
     ELSE IF IdTruthy(existingId)
     THEN [ graph |-> graph,
            triggers |-> acc.triggers,
            errors |-> Append(acc.errors,
                              Issue("COMMAND_TRIGGER_CONFLICT", "trigger", "error",
                                    <<existingId>>, <<>>, m["trigger"], -1)) ]
     ELSE [ graph |-> graph,
            triggers |-> MapSet(acc.triggers, m["trigger"], IdOf(m)),
            errors |-> acc.errors ]

RECURSIVE BuildIndexes(_, _, _)
BuildIndexes(docs, i, acc) ==
  IF i > Len(docs) THEN acc
  ELSE BuildIndexes(docs, i + 1, IndexStep(acc, docs[i].metadata))

\* hasCircularDependency(nodeId), with the two sets it mutates passed in and
\* handed back: [found, visited, recursionStack]
RECURSIVE hasCircularDependency(_, _, _, _)
RECURSIVE VisitDependencies(_, _, _, _, _)
\* the traversal without recursionStack.delete(nodeId)
hasCircularDependency_NoDelete(graph, nodeId, visited, recursionStack) ==
  IF nodeId \in recursionStack
  THEN [found |-> TRUE, visited |-> visited, recursionStack |-> recursionStack]
  ELSE IF nodeId \in visited
  THEN [found |-> FALSE, visited |-> visited, recursionStack |-> recursionStack]
  ELSE VisitDependencies(graph, DepsGet(graph, nodeId), 1,
                         visited \cup {nodeId}, recursionStack \cup {nodeId})

hasCircularDependency(graph, nodeId, visited, recursionStack) ==
  IF nodeId \in recursionStack
  THEN [found |-> TRUE, visited |-> visited, recursionStack |-> recursionStack]
  ELSE IF nodeId \in visited
  THEN [found |-> FALSE, visited |-> visited, recursionStack |-> recursionStack]
  ELSE LET r == VisitDependencies(graph, DepsGet(graph, nodeId), 1,
                                  visited \cup {nodeId}, recursionStack \cup {nodeId})
       IN IF r.found THEN r
          ELSE [r EXCEPT !.recursionStack = @ \ {nodeId}]

\* for (const depId of dependencies) if (hasCircularDependency(depId)) return true
VisitDependencies(graph, dependencies, i, visited, recursionStack) ==
  IF i > Len(dependencies)
  THEN [found |-> FALSE, visited |-> visited, recursionStack |-> recursionStack]
  ELSE LET r == hasCircularDependency(graph, dependencies[i], visited, recursionStack)
       IN IF r.found THEN r
          ELSE VisitDependencies(graph, dependencies, i + 1, r.visited, r.recursionStack)

\* for (const [nodeId] of dependencyGraph) ... break (lines 777-787)
RECURSIVE CircularErrors(_, _, _, _)
CircularErrors(graph, i, visited, recursionStack) ==
  IF i > Len(graph) THEN <<>>
  ELSE LET r == hasCircularDependency(graph, graph[i].key, visited, recursionStack)
       IN IF r.found
          THEN <<Issue("CIRCULAR_DEPENDENCY", "dependencies", "error",
                       <<graph[i].key>>, <<>>, <<>>, -1)>>
          ELSE CircularErrors(graph, i + 1, r.visited, r.recursionStack)

\* lines 789-801
RECURSIVE InvalidDependencyErrors(_, _, _)
InvalidDependencyErrors(graph, i, allIds) ==
  IF i > Len(graph) THEN <<>>
  ELSE LET missing(depId) == depId \notin allIds
           invalidDeps == SelectSeq(graph[i].value, missing)
       IN If(Len(invalidDeps) > 0,
             Issue("INVALID_DEPENDENCY", "dependencies", "error",
                   <<graph[i].key>>, invalidDeps, <<>>, -1))
          \o InvalidDependencyErrors(graph, i + 1, allIds)

GLOBAL_SCOPE ==
  <<"g","l","o","b","a","l">>

\* the scopes of a rule without the ['global'] default
ClaimedScopes_NoDefault(m) ==
  IF HasTruthy(m, "scope") THEN ScopeList(m["scope"]) ELSE <<>>

\* the scopes a rule claims (lines 812-814)
ClaimedScopes(m) ==
  IF HasTruthy(m, "scope") THEN ScopeList(m["scope"]) ELSE <<GLOBAL_SCOPE>>

\* scopes.forEach(scope => overlappingScopes.get(scope).push(rule.metadata.id))
RECURSIVE PushScopes(_, _, _, _)
PushScopes(map, scopes, i, id) ==
  IF i > Len(scopes) THEN map
  ELSE LET old == IF MapHas(map, scopes[i]) THEN map[MapIndex(map, scopes[i])].value ELSE <<>>
       IN PushScopes(MapSet(map, scopes[i], Append(old, id)), scopes, i + 1, id)

RECURSIVE OverlappingScopes(_, _, _)
OverlappingScopes(rules, i, map) ==
  IF i > Len(rules) THEN map
  ELSE OverlappingScopes(rules, i + 1,
         PushScopes(map, ClaimedScopes(rules[i].metadata), 1, IdOf(rules[i].metadata)))

RECURSIVE ScopeWarnings(_, _)
ScopeWarnings(map, i) ==
  IF i > Len(map) THEN <<>>
  ELSE If(Len(map[i].value) > 1,
          Issue("RULE_SCOPE_CONFLICT", "scope", "warning", <<>>, map[i].value, map[i].key, -1))
       \o ScopeWarnings(map, i + 1)

IsAlwaysApplyRule(a) ==
  /\ Has(a.metadata, "alwaysApply") /\ a.metadata["alwaysApply"] = TRUE
  /\ Has(a.metadata, "type") /\ a.metadata["type"] = "rule"

\* the result returned at lines 836-841, given the indexes built by the
\* forEach and the errors of the cycle report loop
GroupResult(docs, idx, circularErrors) ==
  LET allIds == {IdOf(docs[i].metadata) : i \in 1..Len(docs)}
      errors ==
        idx.errors
        \o circularErrors
        \o InvalidDependencyErrors(idx.graph, 1, allIds)
      alwaysApplyRules == SelectSeq(docs, IsAlwaysApplyRule)
      warnings ==
        IF Len(alwaysApplyRules) > 1
        THEN ScopeWarnings(OverlappingScopes(alwaysApplyRules, 1, <<>>), 1)
        ELSE <<>>
  IN Result(Len(errors) = 0, errors, warnings, <<>>)

\* the indexes built by abstractions.forEach
IndexesOf(docs) ==
  BuildIndexes(docs, 1, [graph |-> <<>>, triggers |-> <<>>, errors |-> <<>>])

validateAbstractionGroup(docs) ==
  LET idx == IndexesOf(docs)
  IN GroupResult(docs, idx, CircularErrors(idx.graph, 1, {}, {}))

(***************************************************************************)
(* src/src/wrapper/sync-manager.ts: SyncManager.validateConfig             *)
(***************************************************************************)
validateConfig(m, c) ==
  Let(validateAnyAbstraction(m, c), LAMBDA outcome :
    IF outcome.kind = "throw"
    THEN Return(Result(FALSE,
                       <<Issue("VALIDATION_FAILED", "", "error", <<outcome.error>>,
                               <<>>, <<>>, -1)>>,
                       <<>>, <<>>))
    ELSE outcome)

(***************************************************************************)
(* The inputs explored.  A content is a concatenation of at most           *)
(* MaxPhrases phrases; a metadata map is drawn from the fields each        *)
(* validator and the classifier read; a batch has at most MaxDocs          *)
(* documents, each declaring at most MaxDeps dependencies.                 *)
(***************************************************************************)
Phrases ==
  <<
    <<"H","o","w"," ","t","o"," ">>,     \* a skill keyword, in upper case
    <<"/","g","o"," ">>,                 \* slash-command syntax
    <<"a","l","w","a","y","s"," ">>,     \* a rule keyword
    <<"f","i","r","s","t"," ">>,         \* a subagent keyword and a step marker
    <<"o","k"," ">>,                     \* no signal
    <<" ">>                              \* white space
  >>

RECURSIVE Concat(_, _)
Concat(choice, i) ==
  IF i > Len(choice) THEN <<>> ELSE Phrases[choice[i]] \o Concat(choice, i + 1)

\* The contents: up to MaxPhrases phrases, in the order of the list above
\* (the code looks for substrings, wherever they are in the content).
Contents ==
  {Concat(choice, 1) :
     choice \in {c \in UNION {[1..n -> 1..Len(Phrases)] : n \in 0..MaxPhrases} :
                   \A i \in 1..(Len(c) - 1) : c[i] <= c[i + 1]}}

Str(chars) == [kind |-> "string", val |-> chars]

Arr(items) == [kind |-> "array", val |-> items]

Null == [kind |-> "null", val |-> <<>>]

UndefinedValue == [kind |-> "undefined", val |-> <<>>]

ContentInputs == {Str(t) : t \in Contents} \cup {Null, UndefinedValue}

Object(fields) == [kind |-> "object", fields |-> fields]

NullObject == [kind |-> "null", fields |-> <<>>]

UndefinedObject == [kind |-> "undefined", fields |-> <<>>]

\* an argument that the call of a behaviour does not take
NoArgument == [kind |-> "none", fields |-> <<>>]

NoContent == [kind |-> "none", val |-> <<>>]

\* a field that is absent or has one of the given values
Opt(k, values) == {<<>>} \cup {(k :> v) : v \in values}

SixTools == <<"bash", "python", "node", "git", "docker", "jest">>

\* expertise: absent, an empty array, an array of one area, a string that is
\* not an array, the empty string; portability is varied on the first three
SkillMetas ==
  {("id" :> "doc") @@ ("type" :> "skill") @@ e @@ p :
     e \in Opt("expertise", {Arr(<<>>), Arr(<<"typescript">>)}),
     p \in Opt("portability", {"cross-tool", "everywhere"})}
  \cup {("id" :> "doc") @@ ("type" :> "skill") @@ ("expertise" :> e) :
          e \in {Str(<<"n","o">>), Str(<<>>)}}

\* six tools, the last of them outside KNOWN_TOOLS
SixToolsOneUnknown == <<"bash", "python", "node", "git", "docker", "kubectl">>

\* a model is declared together with an isolated context and six tools
SubAgentMetas ==
  {("id" :> "doc") @@ ("type" :> "subagent") @@ i @@ t @@ a :
     i \in Opt("isolatedContext", {TRUE, FALSE}),
     t \in Opt("tools", {SixTools}),
     a \in Opt("alwaysApply", {TRUE})}
  \cup {("id" :> "doc") @@ ("type" :> "subagent") @@ ("isolatedContext" :> TRUE)
          @@ ("tools" :> t) @@ m :
          t \in {SixTools, SixToolsOneUnknown},
          m \in Opt("model", {"gpt-4", "invalid-model"})}

CommandMetas ==
  {("id" :> "doc") @@ ("type" :> "command") @@ t @@ u :
     t \in Opt("trigger", {<<"/","b","u","i","l","d">>, <<"b","u","i","l","d">>}),
     u \in Opt("userInvoked", {TRUE})}

\* scope: absent, a bare string, an array of one name; and, without
\* alwaysApply, the empty string, a blank string, the empty array and an
\* array with an empty entry
RuleMetas ==
  {("id" :> "doc") @@ ("type" :> "rule") @@ s @@ a :
     s \in Opt("scope", {Str(<<"c","l","i">>), Arr(<< <<"s","r","c">> >>)}),
     a \in Opt("alwaysApply", {TRUE})}
  \cup {("id" :> "doc") @@ ("type" :> "rule") @@ ("scope" :> s) :
          s \in {Str(<<>>), Str(<<" ">>), Arr(<<>>), Arr(<< <<"s","r","c">>, <<>> >>)}}

UnknownTypeMetas ==
  {("id" :> "doc") @@ ("type" :> "unknown-type") @@ e :
     e \in Opt("expertise", {Arr(<<"typescript">>)})}

\* the fields the classifier reads, and six tools next to at most alwaysApply
UntypedMetas ==
  {("id" :> "doc") @@ e @@ a @@ m @@ t :
     e \in Opt("expertise", {Arr(<<"typescript">>)}),
     a \in Opt("alwaysApply", {TRUE}),
     m \in Opt("manual", {TRUE}),
     t \in Opt("triggers", {<< <<"/","x">> >>})}
  \cup {("id" :> "doc") @@ ("tools" :> SixTools) @@ a : a \in Opt("alwaysApply", {TRUE})}

\* The contents on which the scoring is explored: the phrases above without
\* the neutral ones, a phrase that is an example marker and no keyword, a
\* numbered and a bulleted list item at the start of a line, and five
\* command keywords at once (the caps of calculateContentScore).
SignalPhrases ==
  <<
    <<"H","o","w"," ","t","o"," ">>,
    <<"/","g","o"," ">>,
    <<"a","l","w","a","y","s"," ">>,
    <<"f","i","r","s","t"," ">>,
    <<"e",".","g","."," ">>,
    <<"\n","1","."," ">>,
    <<"\n","-"," ">>,
    <<"r","u","n"," ","c","l","i"," ","c","a","l","l"," ","t","o","o","l"," ","f","l","a","g"," ">>
  >>

RECURSIVE ConcatOf(_, _, _)
ConcatOf(phrases, choice, i) ==
  IF i > Len(choice) THEN <<>>
  ELSE phrases[choice[i]] \o ConcatOf(phrases, choice, i + 1)

SignalContents ==
  {ConcatOf(SignalPhrases, choice, 1) :
     choice \in {c \in UNION {[1..n -> 1..Len(SignalPhrases)] : n \in 0..MaxPhrases} :
                   \A i \in 1..(Len(c) - 1) : c[i] <= c[i + 1]}}

\* the five fields analyzeMetadata reads when no type is declared
SlashTriggers == ("triggers" :> << <<"/","x">> >>)

Manual == ("manual" :> TRUE)

AlwaysApply == ("alwaysApply" :> TRUE)

Expertise == ("expertise" :> Arr(<<"typescript">>))

CliScope == ("scope" :> Str(<<"c","l","i">>))

\* no hint, each hint alone, hints of different confidences together, all
HintMetas ==
  {("id" :> "doc") @@ h :
     h \in { <<>>, SlashTriggers, Manual, AlwaysApply, Expertise, CliScope,
             Manual @@ AlwaysApply, SlashTriggers @@ Manual, Manual @@ CliScope,
             AlwaysApply @@ CliScope, Expertise @@ AlwaysApply,
             SlashTriggers @@ Manual @@ AlwaysApply @@ Expertise @@ CliScope }}

\* a declared type next to a hint of another category, or next to none
TypedHintMetas ==
  { ("id" :> "doc") @@ ("type" :> "rule"),
    ("id" :> "doc") @@ ("type" :> "rule") @@ ("expertise" :> Arr(<<"typescript">>)),
    ("id" :> "doc") @@ ("type" :> "skill"),
    ("id" :> "doc") @@ ("type" :> "skill") @@ ("scope" :> Str(<<"c","l","i">>)) }

MetadataInputs ==
  {Object(f) : f \in SkillMetas \cup SubAgentMetas \cup CommandMetas
                     \cup RuleMetas \cup UnknownTypeMetas \cup UntypedMetas}
  \cup {NullObject, UndefinedObject}

\* Document ids.  The code only compares ids with each other and with the
\* dependency ids.
IdNames == <<"a", "b", "c", "d", "e">>

IdsUpTo(i) == {IdNames[j] : j \in 1..i}

Ids == IdsUpTo(MaxDocs)

\* an id that no document of a batch has
MissingId == "x"

\* dependency lists: up to MaxDeps distinct ids, in the order of a list of ids
RECURSIVE ListsFrom(_, _)
ListsFrom(ids, n) ==
  IF n = 0 \/ ids = <<>> THEN {<<>>}
  ELSE ListsFrom(Tail(ids), n)
       \cup {<<Head(ids)>> \o l : l \in ListsFrom(Tail(ids), n - 1)}

DependencyLists == ListsFrom(SubSeq(IdNames, 1, MaxDocs) \o <<MissingId>>, MaxDeps)

DependencyChoices == Opt("dependencies", DependencyLists)

\* the dependency fields of documents that share ids
SharedIdChoices ==
  Opt("dependencies", {<<>>, <<IdNames[1]>>, <<IdNames[2]>>, <<MissingId>>})

TriggerChoices ==
  { ("type" :> "command") @@ ("trigger" :> <<"/","x">>),
    ("type" :> "command") @@ ("trigger" :> <<"/","y">>),
    ("type" :> "command") @@ ("trigger" :> <<>>),
    ("type" :> "command"),
    ("type" :> "skill") @@ ("trigger" :> <<"/","x">>) }

ScopeChoices ==
  {("type" :> "rule") @@ ("alwaysApply" :> TRUE) @@ s :
     s \in Opt("scope", {Arr(<< <<"s">> >>), Arr(<< <<"s">>, <<"t">> >>),
                         Arr(<< <<"s">>, <<"s">> >>), Arr(<<>>),
                         Str(<<"s">>), Str(GLOBAL_SCOPE), Str(<<>>)})}
  \cup {k @@ s : k \in {("type" :> "rule"), ("type" :> "skill") @@ ("alwaysApply" :> TRUE)},
                 s \in Opt("scope", {Str(<<"s">>)})}

Abstraction(m) == [metadata |-> m, content |-> <<>>]

\* the batch of n documents with the given ids and remaining fields
Batch(n, ids, rest) == [i \in 1..n |-> Abstraction(("id" :> ids[i]) @@ rest[i])]

\* the i-th document has the i-th id
DistinctIds(n) == [i \in 1..n |-> IdNames[i]]

\* batches that exercise dependencies between documents of distinct ids
DependencyBatch(b) ==
  \E n \in 0..MaxDocs : \E rest \in [1..n -> DependencyChoices] :
    b = Batch(n, DistinctIds(n), rest)

\* batches in which documents share the first two ids
SharedIdBatch(b) ==
  \E n \in 2..MaxDocs : \E ids \in [1..n -> IdsUpTo(2)] :
    /\ ids[1] = IdNames[1]
    /\ \E i, j \in 1..n : i # j /\ ids[i] = ids[j]
    /\ \E rest \in [1..n -> SharedIdChoices] : b = Batch(n, ids, rest)

\* batches that exercise command triggers; a document takes its own id, the
\* id of the first document or the empty string
TriggerBatch(b) ==
  \E n \in 0..MaxDocs : \E ids \in [1..n -> Ids \cup {""}] :
    /\ \A i \in 1..n : ids[i] \in {IdNames[i], IdNames[1], ""}
    /\ \E rest \in [1..n -> TriggerChoices] : b = Batch(n, ids, rest)

\* batches that exercise rule scopes
ScopeBatch(b) ==
  \E n \in 0..MaxDocs : \E rest \in [1..n -> ScopeChoices] :
    b = Batch(n, DistinctIds(n), rest)

(***************************************************************************)
(* The state: the arguments of a call, the function called on them and its *)
(* outcome.  A behaviour is one call on fresh arguments, possibly followed *)
(* by a second call of the same function on the same argument objects     *)
(* (for the classifier, the dispatcher and the group validator); previous  *)
(* then holds the outcome of the first.  The functions read                *)
(* nothing but their arguments: no module-level binding is written (all    *)
(* are const tables), the regular expressions of STRUCTURAL_PATTERNS carry *)
(* no g or y flag, hence test() neither reads nor writes lastIndex, and    *)
(* every Map, Set and array the functions fill is created inside the call, *)
(* so a call on other arguments changes nothing of this state.             *)
(***************************************************************************)
NoResult == [kind |-> "none", value |-> <<>>, error |-> ""]

\* the arguments of a call on one document
DocumentInit ==
  /\ metadata \in MetadataInputs
  /\ content \in ContentInputs
  /\ abstractions = <<>>

\* the argument of a call on a batch
BatchInit ==
  /\ metadata = NoArgument
  /\ content = NoContent
  /\ \/ DependencyBatch(abstractions)
     \/ SharedIdBatch(abstractions)
     \/ TriggerBatch(abstractions)
     \/ ScopeBatch(abstractions)

\* no traversal under way: the sets and the stack of a call not yet made
TraversalIdle ==
  /\ dependencyGraph = <<>>
  /\ cursor = 0
  /\ frames = <<>>
  /\ visitedSet = {}
  /\ recursionSet = {}
  /\ cycleFound = FALSE

\* new CommandRegistry(): two empty maps
RegistryEmpty ==
  /\ commands = <<>>
  /\ aliases = <<>>
  /\ argument = <<>>

Init ==
  /\ DocumentInit \/ BatchInit
  /\ called = "none"
  /\ result = NoResult
  /\ previous = NoResult
  /\ TraversalIdle
  /\ RegistryEmpty

\* a call that strips the type field from its metadata argument in place
\* (delete metadata.type) instead of copying the remaining fields
Call_DeletesType(name, outcome) ==
  /\ called = "none"
  /\ called' = name
  /\ result' = outcome
  /\ metadata' = IF IsObject(metadata)
                 THEN Object(WithoutType(metadata.fields)) ELSE metadata
  /\ UNCHANGED <<content, abstractions, previous, traversalVars, registryVars>>

\* a call: no function assigns to a property of its arguments
Call(name, outcome) ==
  /\ called = "none"
  /\ called' = name
  /\ result' = outcome
  /\ UNCHANGED <<metadata, content, abstractions, previous, traversalVars, registryVars>>

OnDocument == metadata # NoArgument

CallValidateSkill ==
  OnDocument /\ Call("validateSkill", validateSkill(metadata, content))

CallValidateSubAgent ==
  OnDocument /\ Call("validateSubAgent", validateSubAgent(metadata, content))

CallValidateCommand ==
  OnDocument /\ Call("validateCommand", validateCommand(metadata, content))

CallValidateRule ==
  OnDocument /\ Call("validateRule", validateRule(metadata, content))

CallValidateAnyAbstraction ==
  OnDocument /\ Call("validateAnyAbstraction", validateAnyAbstraction(metadata, content))

CallValidateConfig ==
  OnDocument /\ Call("validateConfig", validateConfig(metadata, content))

CallDetectAbstractionType ==
  OnDocument /\ Call("detectAbstractionType",
                     detectAbstractionType([metadata |-> metadata, content |-> content]))

CallValidateAbstractionGroup ==
  ~OnDocument /\ Call("validateAbstractionGroup",
                      Return(validateAbstractionGroup(abstractions)))

\* the functions a caller calls a second time on the same objects
RepeatedFunctions ==
  {"detectAbstractionType", "validateAnyAbstraction", "validateAbstractionGroup"}

\* the outcome of the named function on the argument objects as they are
Outcome(name) ==
  CASE name = "validateAnyAbstraction" -> validateAnyAbstraction(metadata, content)
    [] name = "detectAbstractionType" ->
         detectAbstractionType([metadata |-> metadata, content |-> content])
    [] name = "validateAbstractionGroup" -> Return(validateAbstractionGroup(abstractions))

\* the caller calls the same function a second time on the same objects
CallAgain ==
  /\ called \in RepeatedFunctions
  /\ previous = NoResult
  /\ previous' = result
  /\ result' = Outcome(called)
  /\ UNCHANGED <<metadata, content, abstractions, called, traversalVars, registryVars>>

Next ==
  \/ CallValidateSkill
  \/ CallValidateSubAgent
  \/ CallValidateCommand
  \/ CallValidateRule
  \/ CallValidateAnyAbstraction
  \/ CallValidateConfig
  \/ CallDetectAbstractionType
  \/ CallValidateAbstractionGroup
  \/ CallAgain

Spec == Init /\ [][Next]_vars

(***************************************************************************)
(* The classifier and its caller, the dispatcher: one call of              *)
(* detectAbstractionType or of validateAnyAbstraction on a content of      *)
(* scoring phrases and a metadata map of hint fields, with or without a    *)
(* declared type.                                                          *)
(***************************************************************************)
ClassifierInit ==
  /\ metadata \in {Object(f) : f \in HintMetas \cup TypedHintMetas}
  /\ content \in {Str(t) : t \in SignalContents}
  /\ abstractions = <<>>
  /\ called = "none"
  /\ result = NoResult
  /\ previous = NoResult
  /\ TraversalIdle
  /\ RegistryEmpty

ClassifierNext ==
  \/ CallDetectAbstractionType
  \/ CallValidateAnyAbstraction

ClassifierSpec == ClassifierInit /\ [][ClassifierNext]_vars

(***************************************************************************)
(* The dependency traversal of validateAbstractionGroup, one step at a     *)
(* time (validators.ts lines 757-787).  frames is the call stack of        *)
(* hasCircularDependency: one frame per call that has passed its two       *)
(* membership tests, holding its nodeId and the position of its for-of     *)
(* iterator in the dependency list.  cursor is the position of the outer   *)
(* for-of iterator in dependencyGraph.  An iterator moves past an element  *)
(* when it hands it to the loop body.  dependencyGraph is the Map the      *)
(* forEach has filled before the traversal starts.                         *)
(***************************************************************************)
\* the state the nested function closes over, and its call stack
Traversal ==
  [frames |-> frames, visited |-> visitedSet, recursionStack |-> recursionSet,
   found |-> cycleFound]

\* a call of hasCircularDependency whose second test does not consult visited
Enter_IgnoresVisited(nodeId, t) ==
  IF nodeId \in t.recursionStack THEN [t EXCEPT !.found = TRUE]
  ELSE [t EXCEPT !.visited = @ \cup {nodeId},
                 !.recursionStack = @ \cup {nodeId},
                 !.frames = Append(@, [nodeId |-> nodeId, next |-> 1])]

\* a call hasCircularDependency(nodeId) up to the start of its loop (lines
\* 762-768): it returns true, returns false, or marks the node and goes on
Enter(nodeId, t) ==
  IF nodeId \in t.recursionStack THEN [t EXCEPT !.found = TRUE]
  ELSE IF nodeId \in t.visited THEN t
  ELSE [t EXCEPT !.visited = @ \cup {nodeId},
                 !.recursionStack = @ \cup {nodeId},
                 !.frames = Append(@, [nodeId |-> nodeId, next |-> 1])]

Top == frames[Len(frames)]

Pop(stack) == SubSeq(stack, 1, Len(stack) - 1)

Traversing == called = "validateAbstractionGroup" /\ result = NoResult

SetTraversal(t) ==
  /\ frames' = t.frames
  /\ visitedSet' = t.visited
  /\ recursionSet' = t.recursionStack
  /\ cycleFound' = t.found

\* the call: the forEach has filled dependencyGraph, the two sets are new
BeginTraversal ==
  /\ called = "none"
  /\ ~OnDocument
  /\ called' = "validateAbstractionGroup"
  /\ dependencyGraph' = IndexesOf(abstractions).graph
  /\ cursor' = 1
  /\ UNCHANGED <<metadata, content, abstractions, result, previous,
                 frames, visitedSet, recursionSet, cycleFound, registryVars>>

\* for (const [nodeId] of dependencyGraph) if (hasCircularDependency(nodeId))
VisitNode ==
  /\ Traversing
  /\ frames = <<>>
  /\ ~cycleFound
  /\ cursor <= Len(dependencyGraph)
  /\ SetTraversal(Enter(dependencyGraph[cursor].key, Traversal))
  /\ cursor' = cursor + 1
  /\ UNCHANGED <<metadata, content, abstractions, called, result, previous,
                 dependencyGraph, registryVars>>

\* for (const depId of dependencies) if (hasCircularDependency(depId))
VisitDependency ==
  /\ Traversing
  /\ frames # <<>>
  /\ ~cycleFound
  /\ Let(DepsGet(dependencyGraph, Top.nodeId), LAMBDA dependencies :
       /\ Top.next <= Len(dependencies)
       /\ SetTraversal(Enter(dependencies[Top.next],
                             [Traversal EXCEPT !.frames[Len(frames)].next = @ + 1])))
  /\ UNCHANGED <<metadata, content, abstractions, called, result, previous,
                 dependencyGraph, cursor, registryVars>>

\* recursionStack.delete(nodeId); return false (lines 772-773)
ReturnFalse ==
  /\ Traversing
  /\ frames # <<>>
  /\ ~cycleFound
  /\ Top.next > Len(DepsGet(dependencyGraph, Top.nodeId))
  /\ recursionSet' = recursionSet \ {Top.nodeId}
  /\ frames' = Pop(frames)
  /\ UNCHANGED <<metadata, content, abstractions, called, result, previous,
                 dependencyGraph, cursor, visitedSet, cycleFound, registryVars>>

\* return true, through every caller (line 769)
ReturnTrue ==
  /\ Traversing
  /\ frames # <<>>
  /\ cycleFound
  /\ frames' = Pop(frames)
  /\ UNCHANGED <<metadata, content, abstractions, called, result, previous,
                 dependencyGraph, cursor, visitedSet, recursionSet, cycleFound, registryVars>>

\* the rest of the function once the report loop is left, by break after
\* the error on the node the outer iterator handed out last, or at its end
FinishTraversal ==
  /\ Traversing
  /\ frames = <<>>
  /\ cycleFound \/ cursor > Len(dependencyGraph)
  /\ result' =
       Return(GroupResult(abstractions, IndexesOf(abstractions),
                IF cycleFound
                THEN <<Issue("CIRCULAR_DEPENDENCY", "dependencies", "error",
                             <<dependencyGraph[cursor - 1].key>>, <<>>, <<>>, -1)>>
                ELSE <<>>))
  /\ UNCHANGED <<metadata, content, abstractions, called, previous,
                 traversalVars, registryVars>>

\* the number of documents of a traversed batch
MaxNodes == 2

\* dependency lists of up to two ids of the batch, repetitions included
EdgeLists(n) == UNION {[1..k -> IdsUpTo(n)] : k \in 0..2}

\* batches of documents of distinct ids, each without a dependencies field
\* or with a list of ids of the batch
TraversalBatch(b) ==
  \E n \in 0..MaxNodes : \E rest \in [1..n -> Opt("dependencies", EdgeLists(n))] :
    b = Batch(n, DistinctIds(n), rest)

\* the argument of the call: documents with dependency lists
TraversalInit ==
  /\ metadata = NoArgument
  /\ content = NoContent
  /\ TraversalBatch(abstractions)
  /\ called = "none"
  /\ result = NoResult
  /\ previous = NoResult
  /\ TraversalIdle
  /\ RegistryEmpty

TraversalNext ==
  \/ BeginTraversal
  \/ VisitNode
  \/ VisitDependency
  \/ ReturnFalse
  \/ ReturnTrue
  \/ FinishTraversal

\* the function is synchronous: once called it runs on until it returns
TraversalSpec == TraversalInit /\ [][TraversalNext]_vars /\ WF_vars(TraversalNext)

(***************************************************************************)
(* src/src/command-registry.ts: CommandRegistry.  commands maps a command  *)
(* name to its RegisteredCommand, aliases maps an alias to a command name; *)
(* both are Maps, sequences of [key, value] entries in insertion order.    *)
(* A command instance is identified by its name.                           *)
(***************************************************************************)
\* Map.prototype.get
MapGet(map, k) == IF MapHas(map, k) THEN map[MapIndex(map, k)].value ELSE Undefined

\* Map.prototype.delete
MapDelete(map, k) == SelectSeq(map, LAMBDA entry : entry.key # k)

\* for (const alias of aliases) this.aliases.set(alias, name)
RECURSIVE SetAliases(_, _, _, _)
SetAliases(map, aliasList, i, name) ==
  IF i > Len(aliasList) THEN map
  ELSE SetAliases(MapSet(map, aliasList[i], name), aliasList, i + 1, name)

\* for (const alias of registered.aliases) this.aliases.delete(alias)
RECURSIVE DeleteAliases(_, _, _)
DeleteAliases(map, aliasList, i) ==
  IF i > Len(aliasList) THEN map
  ELSE DeleteAliases(MapDelete(map, aliasList[i]), aliasList, i + 1)

\* the registry as a value: [commands, aliases]
Registry == [commands |-> commands, aliases |-> aliases]

\* the two checks of register (lines 33-42): the error thrown, or none
RegisterConflict(r, name, aliasList) ==
  IF MapHas(r.commands, name) THEN "already registered"
  ELSE IF \E i \in 1..Len(aliasList) :
            MapHas(r.commands, aliasList[i]) \/ MapHas(r.aliases, aliasList[i])
  THEN "alias conflicts"
  ELSE ""

\* the registry after register(command, {aliases}) returns (lines 45-55)
Registered(r, name, aliasList) ==
  [commands |-> MapSet(r.commands, name, [instance |-> name, aliases |-> aliasList]),
   aliases |-> SetAliases(r.aliases, aliasList, 1, name)]

\* get(nameOrAlias): the instance, or undefined (lines 61-76); the alias
\* target is used as a condition, so an empty name is not followed
get(r, nameOrAlias) ==
  IF MapHas(r.commands, nameOrAlias) THEN MapGet(r.commands, nameOrAlias).instance
  ELSE LET realName == MapGet(r.aliases, nameOrAlias)
       IN IF realName # Undefined /\ realName # "" /\ MapHas(r.commands, realName)
          THEN MapGet(r.commands, realName).instance
          ELSE Undefined

\* has(nameOrAlias) (lines 81-83)
has(r, nameOrAlias) == MapHas(r.commands, nameOrAlias) \/ MapHas(r.aliases, nameOrAlias)

\* the name unregister resolves its argument to (lines 229-232)
RealName(r, nameOrAlias) ==
  IF MapHas(r.aliases, nameOrAlias) THEN MapGet(r.aliases, nameOrAlias) ELSE nameOrAlias

\* the registry after unregister(nameOrAlias): unchanged when it returns false
Unregistered(r, nameOrAlias) ==
  LET realName == RealName(r, nameOrAlias)
  IN IF ~MapHas(r.commands, realName) THEN r
     ELSE [commands |-> MapDelete(r.commands, realName),
           aliases |-> DeleteAliases(r.aliases, MapGet(r.commands, realName).aliases, 1)]

\* the number of names a registry is exercised with
MaxNames == 3

\* command names and aliases; the empty string is a string like any other
NameList == <<"a", "b", "", "c", "d">>

Names == {NameList[i] : i \in 1..MaxNames}

\* the aliases option: absent or empty, one alias, two aliases
AliasLists == UNION {[1..k -> Names] : k \in 0..2}

\* a call on the registry: the method, its argument and its outcome
RegistryCall(name, arg, outcome, r) ==
  /\ called' = name
  /\ argument' = arg
  /\ result' = outcome
  /\ commands' = r.commands
  /\ aliases' = r.aliases
  /\ UNCHANGED <<metadata, content, abstractions, previous, traversalVars>>

\* register(command, {aliases}): the outcome and the registry it leaves
register(r, name, aliasList) ==
  IF RegisterConflict(r, name, aliasList) # ""
  THEN [outcome |-> Throw(RegisterConflict(r, name, aliasList)), registry |-> r]
  ELSE [outcome |-> Return(Undefined), registry |-> Registered(r, name, aliasList)]

Register ==
  \E name \in Names : \E aliasList \in AliasLists :
    RegistryCall("register", <<name, aliasList>>,
                 register(Registry, name, aliasList).outcome,
                 register(Registry, name, aliasList).registry)

Unregister ==
  \E nameOrAlias \in Names :
    RegistryCall("unregister", <<nameOrAlias>>,
                 Return(MapHas(commands, RealName(Registry, nameOrAlias))),
                 Unregistered(Registry, nameOrAlias))

Clear ==
  RegistryCall("clear", <<>>, Return(Undefined), [commands |-> <<>>, aliases |-> <<>>])

Get ==
  \E nameOrAlias \in Names :
    RegistryCall("get", <<nameOrAlias>>, Return(get(Registry, nameOrAlias)), Registry)

HasCommand ==
  \E nameOrAlias \in Names :
    RegistryCall("has", <<nameOrAlias>>, Return(has(Registry, nameOrAlias)), Registry)

RegistryInit ==
  /\ metadata = NoArgument
  /\ content = NoContent
  /\ abstractions = <<>>
  /\ called = "none"
  /\ result = NoResult
  /\ previous = NoResult
  /\ TraversalIdle
  /\ RegistryEmpty

RegistryNext ==
  \/ Register
  \/ Unregister
  \/ Clear
  \/ Get
  \/ HasCommand

RegistrySpec == RegistryInit /\ [][RegistryNext]_vars

(***************************************************************************)
(* Vocabulary of the properties.                                           *)
(***************************************************************************)
ValidationCalls ==
  {"validateSkill", "validateSubAgent", "validateCommand", "validateRule",
   "validateAnyAbstraction", "validateAbstractionGroup"}

Returned == result.kind = "return"

\* the number of issues of a list that satisfy a test
CountIssues(issues, test(_)) == Len(SelectSeq(issues, test))

HasCode(issues, code) == \E i \in 1..Len(issues) : issues[i].code = code

CountCode(issues, code) ==
  LET is(e) == e.code = code IN CountIssues(issues, is)

\* the dispatcher was called on a metadata object and a string content
DispatchedOnDocument ==
  called = "validateAnyAbstraction" /\ IsObject(metadata) /\ IsString(content)

\* the type the dispatcher routes on, when the metadata declares one
DeclaresType == IsObject(metadata) /\ HasType(metadata.fields)

DeclaredType == metadata.fields["type"]

CategoryNames == {"skill", "subagent", "command", "rule"}

(***************************************************************************)
(* C1.  Every ValidationResult returned by a category validator, by the    *)
(* dispatcher or by the group validator has valid equal to "errors is      *)
(* empty"; warnings and suggestions, the mismatch warning appended by the  *)
(* dispatcher included, do not enter into valid.                           *)
(***************************************************************************)
C1_ValidIffNoErrors ==
  (called \in ValidationCalls /\ Returned)
    => (result.value.valid <=> (Len(result.value.errors) = 0))

\* the dispatcher returned a valid result that carries a mismatch warning
C1_Witness ==
  /\ called = "validateAnyAbstraction"
  /\ Returned
  /\ result.value.valid
  /\ HasCode(result.value.warnings, "ABSTRACTION_TYPE_MISMATCH")
  /\ Len(result.value.suggestions) > 0

(***************************************************************************)
(* The batch handed to validateAbstractionGroup, described from the        *)
(* documents themselves and not from the indexes the validator builds.     *)
(***************************************************************************)
GroupReturned == called = "validateAbstractionGroup" /\ Returned

Docs == 1..Len(abstractions)

DocId(i) == abstractions[i].metadata["id"]

DocDeclares(i, k) == k \in DOMAIN abstractions[i].metadata

Elements(s) == {s[i] : i \in 1..Len(s)}

\* The dependency graph is an adjacency map documentId -> dependencies, one
\* list per id: the list of the last document of that id that declares one.
HoldsDependencies(i) ==
  /\ DocDeclares(i, "dependencies")
  /\ ~\E j \in Docs : j > i /\ DocId(j) = DocId(i) /\ DocDeclares(j, "dependencies")

Nodes == Ids \cup {MissingId}

\* an edge of the dependency graph: documentId -> an id of its list
DependsOn(n, k) ==
  \E i \in Docs : /\ HoldsDependencies(i)
                  /\ DocId(i) = n
                  /\ k \in Elements(abstractions[i].metadata["dependencies"])

\* the nodes that have a dependency list, hence possibly a successor
DependentNodes == {n \in Nodes : \E i \in Docs : HoldsDependencies(i) /\ DocId(i) = n}

\* a finite graph has a cycle exactly when some non-empty set of nodes is
\* closed under "has a successor in the set"; such nodes have a successor
HasCycle ==
  \E S \in (SUBSET DependentNodes) \ {{}} : \A n \in S : \E k \in S : DependsOn(n, k)

(***************************************************************************)
(* C2.  validateAbstractionGroup returns exactly one CIRCULAR_DEPENDENCY   *)
(* error when the dependency graph of the batch has a cycle (of two nodes, *)
(* longer, a self-dependency, or several cycles) and none when the graph   *)
(* is acyclic.                                                             *)
(***************************************************************************)
C2_OneCircularErrorIffCycle ==
  GroupReturned =>
    CountCode(result.value.errors, "CIRCULAR_DEPENDENCY") = (IF HasCycle THEN 1 ELSE 0)

\* two independent cycles, a self-dependency and a two-node cycle, reported
\* once
C2_Witness ==
  /\ GroupReturned
  /\ \E n \in Ids : DependsOn(n, n)
  /\ \E n, k \in Ids : n # k /\ DependsOn(n, k) /\ DependsOn(k, n)
  /\ CountCode(result.value.errors, "CIRCULAR_DEPENDENCY") = 1

\* an acyclic chain of three documents gets no error
C2_WitnessChain ==
  /\ GroupReturned
  /\ \E n, k, l \in Ids :
       /\ n # k /\ k # l /\ n # l
       /\ DependsOn(n, k) /\ DependsOn(k, l)
  /\ ~HasCycle
  /\ CountCode(result.value.errors, "CIRCULAR_DEPENDENCY") = 0

(***************************************************************************)
(* C3.  When k >= 1 documents of type 'command' with distinct non-empty    *)
(* ids declare the same trigger, validateAbstractionGroup reports exactly  *)
(* k-1 COMMAND_TRIGGER_CONFLICT errors for that trigger; documents of      *)
(* another type never contribute, whatever trigger they carry.             *)
(***************************************************************************)
\* the triggers of the batch; an empty string is no trigger (validateCommand
\* reports it as COMMAND_MISSING_TRIGGER)
DeclaredTriggers ==
  {abstractions[i].metadata["trigger"] : i \in {j \in Docs : DocDeclares(j, "trigger")}}
  \ {<<>>}

\* the command documents that declare trigger t
CommandsDeclaring(t) ==
  {i \in Docs : /\ DocDeclares(i, "type")
                /\ abstractions[i].metadata["type"] = "command"
                /\ DocDeclares(i, "trigger")
                /\ abstractions[i].metadata["trigger"] = t}

DistinctNonEmptyIds(S) ==
  /\ \A i \in S : DocId(i) # ""
  /\ \A i, j \in S : i # j => DocId(i) # DocId(j)

ConflictsOn(t) ==
  LET onT(e) == e.code = "COMMAND_TRIGGER_CONFLICT" /\ e.text = t
  IN CountIssues(result.value.errors, onT)

C3_TriggerConflictCount ==
  GroupReturned =>
    \A t \in DeclaredTriggers :
      LET claimants == CommandsDeclaring(t) IN
      /\ (claimants # {} /\ DistinctNonEmptyIds(claimants)) =>
           ConflictsOn(t) = Cardinality(claimants) - 1
      /\ claimants = {} => ConflictsOn(t) = 0

\* three commands on one trigger, two errors
C3_Witness ==
  /\ GroupReturned
  /\ \E t \in DeclaredTriggers :
       /\ Cardinality(CommandsDeclaring(t)) = 3
       /\ DistinctNonEmptyIds(CommandsDeclaring(t))
       /\ ConflictsOn(t) = 2

\* a non-command document carries the trigger of two commands: one error
C3_WitnessOtherType ==
  /\ GroupReturned
  /\ \E t \in DeclaredTriggers :
       /\ Cardinality(CommandsDeclaring(t)) = 2
       /\ DistinctNonEmptyIds(CommandsDeclaring(t))
       /\ \E i \in Docs : /\ abstractions[i].metadata["type"] = "skill"
                          /\ DocDeclares(i, "trigger")
                          /\ abstractions[i].metadata["trigger"] = t
       /\ ConflictsOn(t) = 1

(***************************************************************************)
(* C4.  Each COMMAND_TRIGGER_CONFLICT error names both colliding ids: the  *)
(* id of the command that claimed the trigger first and the id of the      *)
(* later command that declared the same trigger.                           *)
(***************************************************************************)
\* error e, the n-th conflict on its trigger, comes from the (n+1)-th
\* command that declares the trigger; with distinct non-empty ids the first
\* claimant is the first such command
NamesBothIds(e) ==
  \E first, later \in CommandsDeclaring(e.text) :
    /\ first < later
    /\ \A i \in CommandsDeclaring(e.text) : first <= i
    /\ DocId(first) \in Elements(e.subject)
    /\ DocId(later) \in Elements(e.subject)

C4_ConflictNamesBothIds ==
  (GroupReturned /\ \A t \in DeclaredTriggers : DistinctNonEmptyIds(CommandsDeclaring(t))) =>
    \A n \in 1..Len(result.value.errors) :
      result.value.errors[n].code = "COMMAND_TRIGGER_CONFLICT"
        => NamesBothIds(result.value.errors[n])

(***************************************************************************)
(* C5.  validateAbstractionGroup reports exactly one INVALID_DEPENDENCY    *)
(* error for each document that declares at least one dependency id that   *)
(* is no document's id; the error lists all and only that document's       *)
(* invalid ids; a document whose dependencies all resolve gets none.       *)
(***************************************************************************)
BatchIds == {DocId(i) : i \in Docs}

InvalidIdsOf(i) ==
  IF DocDeclares(i, "dependencies")
  THEN LET dangling(d) == d \notin BatchIds
       IN SelectSeq(abstractions[i].metadata["dependencies"], dangling)
  ELSE <<>>

DanglingDocs == {i \in Docs : InvalidIdsOf(i) # <<>>}

InvalidDependencyIssues ==
  LET invalid(e) == e.code = "INVALID_DEPENDENCY"
  IN SelectSeq(result.value.errors, invalid)

\* the errors pair off with the dangling documents
C5_OneInvalidDependencyPerDocument ==
  GroupReturned =>
    \E f \in [DanglingDocs -> 1..Len(InvalidDependencyIssues)] :
      /\ \A i, j \in DanglingDocs : i # j => f[i] # f[j]
      /\ \A n \in 1..Len(InvalidDependencyIssues) : \E i \in DanglingDocs : f[i] = n
      /\ \A i \in DanglingDocs :
           /\ InvalidDependencyIssues[f[i]].subject = <<DocId(i)>>
           /\ InvalidDependencyIssues[f[i]].list = InvalidIdsOf(i)

\* the same, for the batches whose documents have distinct ids
C5_HoldsOnDistinctIds ==
  (\A i, j \in Docs : i # j => DocId(i) # DocId(j))
    => C5_OneInvalidDependencyPerDocument

(***************************************************************************)
(* C6.  For every scope s, 'global' standing for a rule that declares no   *)
(* scope: when more than one document of type 'rule' with alwaysApply      *)
(* true claims s, warnings holds a RULE_SCOPE_CONFLICT entry for s that    *)
(* lists the colliding rule ids; errors never holds such an entry, so the  *)
(* conflict by itself leaves valid true.                                   *)
(***************************************************************************)
AlwaysApplyRuleDocs ==
  {i \in Docs : /\ DocDeclares(i, "type") /\ abstractions[i].metadata["type"] = "rule"
                /\ DocDeclares(i, "alwaysApply")
                /\ abstractions[i].metadata["alwaysApply"] = TRUE}

\* the scopes a document claims; an empty string is no scope
ScopesOf(i) ==
  IF DocDeclares(i, "scope") /\ abstractions[i].metadata["scope"] # Str(<<>>)
  THEN LET scope == abstractions[i].metadata["scope"]
       IN IF scope.kind = "array" THEN Elements(scope.val) ELSE {scope.val}
  ELSE {<<"g","l","o","b","a","l">>}

RulesClaiming(s) == {i \in AlwaysApplyRuleDocs : s \in ScopesOf(i)}

AllScopes == UNION {ScopesOf(i) : i \in Docs}

C6_ScopeConflictIsWarning ==
  GroupReturned =>
    /\ \A s \in AllScopes :
         Cardinality(RulesClaiming(s)) > 1 =>
           \E n \in 1..Len(result.value.warnings) :
             /\ result.value.warnings[n].code = "RULE_SCOPE_CONFLICT"
             /\ result.value.warnings[n].severity = "warning"
             /\ result.value.warnings[n].text = s
             /\ Elements(result.value.warnings[n].list) = {DocId(i) : i \in RulesClaiming(s)}
    /\ ~HasCode(result.value.errors, "RULE_SCOPE_CONFLICT")
    /\ (\A n \in 1..Len(result.value.errors) :
          result.value.errors[n].code = "RULE_SCOPE_CONFLICT") => result.value.valid

\* a rule without scope and a rule of scope 'global' collide on the default
\* scope, and the result stays valid
C6_Witness ==
  /\ GroupReturned
  /\ \E i, j \in AlwaysApplyRuleDocs :
       /\ ~DocDeclares(i, "scope")
       /\ DocDeclares(j, "scope")
       /\ <<"g","l","o","b","a","l">> \in ScopesOf(j)
  /\ HasCode(result.value.warnings, "RULE_SCOPE_CONFLICT")
  /\ result.value.valid

(***************************************************************************)
(* C7.  validateAnyAbstraction on a null or undefined metadata, or on a    *)
(* null or undefined content, returns (does not throw) valid false with    *)
(* exactly one error, MISSING_REQUIRED_FIELD, and no warning and no        *)
(* suggestion; an empty-string content is not reported as missing.         *)
(***************************************************************************)
C7_MissingArgumentFailsFast ==
  called = "validateAnyAbstraction" =>
    /\ (~IsObject(metadata) \/ ~IsString(content)) =>
         /\ Returned
         /\ result.value.valid = FALSE
         /\ Len(result.value.errors) = 1
         /\ result.value.errors[1].code = "MISSING_REQUIRED_FIELD"
         /\ result.value.errors[1].severity = "error"
         /\ result.value.warnings = <<>>
         /\ result.value.suggestions = <<>>
    /\ (IsObject(metadata) /\ content = Str(<<>>)) =>
         ~(Returned /\ HasCode(result.value.errors, "MISSING_REQUIRED_FIELD"))

\* a null content on a subagent document, whose validator is never reached
C7_Witness ==
  /\ called = "validateAnyAbstraction"
  /\ DeclaresType /\ DeclaredType = "subagent"
  /\ content = Null
  /\ Returned
  /\ result.value.errors[1].code = "MISSING_REQUIRED_FIELD"

(***************************************************************************)
(* C8 as stated.  An effective type outside the four categories gives a    *)
(* result made of a single UNKNOWN_TYPE error and nothing else: no         *)
(* warning, no suggestion.                                                 *)
(***************************************************************************)
C8_Original ==
  (DispatchedOnDocument /\ DeclaresType /\ DeclaredType \notin CategoryNames) =>
    /\ Returned
    /\ Len(result.value.errors) = 1
    /\ result.value.errors[1].code = "UNKNOWN_TYPE"
    /\ result.value.warnings = <<>>
    /\ result.value.suggestions = <<>>

(***************************************************************************)
(* C8 amended.  An effective type outside the four categories gives valid  *)
(* false, exactly one error, UNKNOWN_TYPE, and no suggestion, and no       *)
(* category validator contributes; the only warning the result can carry   *)
(* is one ABSTRACTION_TYPE_MISMATCH, present exactly when the classifier   *)
(* run on the document without its type field is more than 0.7 confident.  *)
(***************************************************************************)
C8_UnknownTypeResult ==
  (DispatchedOnDocument /\ DeclaresType /\ DeclaredType \notin CategoryNames) =>
    /\ Returned
    /\ result.value.valid = FALSE
    /\ Len(result.value.errors) = 1
    /\ result.value.errors[1].code = "UNKNOWN_TYPE"
    /\ result.value.suggestions = <<>>
    /\ Len(result.value.warnings) <= 1
    /\ \A i \in 1..Len(result.value.warnings) :
         result.value.warnings[i].code = "ABSTRACTION_TYPE_MISMATCH"
    /\ (Len(result.value.warnings) = 1) <=>
         (detectType(WithoutType(metadata.fields), content.val).confidence > 700)

\* an unknown type on a content that carries a signal: the error and the
\* mismatch warning together
C8_Witness ==
  /\ DispatchedOnDocument /\ DeclaresType /\ DeclaredType \notin CategoryNames
  /\ Returned
  /\ Len(result.value.errors) = 1
  /\ Len(result.value.warnings) = 1

(***************************************************************************)
(* C9.  validateAnyAbstraction appends an ABSTRACTION_TYPE_MISMATCH        *)
(* warning if and only if metadata.type is explicitly set, the classifier  *)
(* run on the document without its type field returns another type, and    *)
(* the confidence of that classification is greater than 0.7; the warning  *)
(* is a warning only, and none is produced for an inferred type.           *)
(***************************************************************************)
MismatchExpected ==
  /\ DeclaresType
  /\ LET typeInfo == detectType(WithoutType(metadata.fields), content.val)
     IN typeInfo.type # DeclaredType /\ typeInfo.confidence > 700

MismatchWarned ==
  Returned /\ HasCode(result.value.warnings, "ABSTRACTION_TYPE_MISMATCH")

C9_MismatchWarningIff ==
  DispatchedOnDocument =>
    /\ MismatchWarned <=> MismatchExpected
    /\ Returned => ~HasCode(result.value.errors, "ABSTRACTION_TYPE_MISMATCH")

\* the same, for the calls that return
C9_HoldsWhenReturned ==
  (DispatchedOnDocument /\ Returned) => C9_MismatchWarningIff

(***************************************************************************)
(* C10.  When the category validator validateAnyAbstraction delegates to,  *)
(* or the classifier, throws, validateAnyAbstraction catches the exception *)
(* and returns a result with valid false and an error-severity issue: no   *)
(* exception reaches its caller.                                           *)
(***************************************************************************)
C10_DispatcherCatches ==
  called = "validateAnyAbstraction" =>
    /\ Returned
    /\ (DeclaresType /\ routeToSpecificValidator(DeclaredType, metadata, content).kind = "throw")
         => /\ result.value.valid = FALSE
            /\ \E n \in 1..Len(result.value.errors) :
                 result.value.errors[n].severity = "error"

\* SyncManager.validateConfig, the one caller that wraps the dispatcher in a
\* try/catch, does return an error result on the same input
C10_ValidateConfigCatches ==
  called = "validateConfig" =>
    /\ Returned
    /\ validateAnyAbstraction(metadata, content).kind = "throw"
         => /\ result.value.valid = FALSE
            /\ HasCode(result.value.errors, "VALIDATION_FAILED")

(***************************************************************************)
(* C11.  For every metadata map whose fields have their declared shapes    *)
(* and every string content, each of validateSkill, validateSubAgent,      *)
(* validateCommand and validateRule runs to completion and returns a       *)
(* ValidationResult without throwing, whatever the number of declared      *)
(* tools of a subagent and whatever the form of the trigger of a command.  *)
(***************************************************************************)
CategoryValidators ==
  {"validateSkill", "validateSubAgent", "validateCommand", "validateRule"}

\* a category validator was called on a metadata object and a string content
ValidatedDocument ==
  called \in CategoryValidators /\ IsObject(metadata) /\ IsString(content)

C11_CategoryValidatorsReturn == ValidatedDocument => Returned

\* validateSkill and validateRule do return on every such input
C11_SkillAndRuleReturn ==
  (ValidatedDocument /\ called \in {"validateSkill", "validateRule"}) => Returned

\* validateSubAgent returns exactly when more than five tools are declared,
\* validateCommand exactly when the trigger is falsy or lacks the slash
C11_ThrowsExactlyWhen ==
  /\ (ValidatedDocument /\ called = "validateSubAgent") =>
       (Returned <=> (Has(metadata.fields, "tools") /\ Len(metadata.fields["tools"]) > 5))
  /\ (ValidatedDocument /\ called = "validateCommand") =>
       (Returned <=> (TriggerFalsy(metadata.fields)
                        \/ ~StartsWith(metadata.fields["trigger"], <<"/">>)))

(***************************************************************************)
(* C12.  For every document whose metadata.type is one of the four types,  *)
(* detectAbstractionType returns that type with confidence 1.0 and an      *)
(* indicator list that begins with 'explicit type: <type>', whatever the   *)
(* content and the other metadata fields: content patterns and metadata    *)
(* hints never override the explicit type, and the content is not scored   *)
(* (it is not even read: a null content makes no difference).              *)
(***************************************************************************)
ClassifiedWithExplicitType ==
  /\ called = "detectAbstractionType"
  /\ DeclaresType
  /\ DeclaredType \in CategoryNames

C12_ExplicitTypeShortCircuits ==
  ClassifiedWithExplicitType =>
    /\ Returned
    /\ result.value.type = DeclaredType
    /\ result.value.confidence = 1000
    /\ result.value.indicators =
         << Indicator("explicit type", DeclaredType, <<>>),
            Indicator("hint", DeclaredType, HINT_METADATA_TYPE) >>

\* a declared skill with an expertise field whose content, scored without
\* the declaration, is a command with confidence above 0.7
C12_Witness ==
  /\ ClassifiedWithExplicitType
  /\ DeclaredType = "skill"
  /\ Has(metadata.fields, "expertise")
  /\ IsString(content)
  /\ detectType(WithoutType(metadata.fields), content.val).type = "command"
  /\ detectType(WithoutType(metadata.fields), content.val).confidence > 700
  /\ result.value.type = "skill"

\* the content is not read: the same result on a null content
C12_WitnessNullContent ==
  /\ ClassifiedWithExplicitType
  /\ content = Null
  /\ Returned
  /\ result.value.type = DeclaredType

(***************************************************************************)
(* C13.  For every document with empty content and no metadata.type,       *)
(* whatever its other metadata fields, detectAbstractionType returns type  *)
(* 'rule' with confidence >= 0.5.                                          *)
(***************************************************************************)
ClassifiedEmptyUntyped ==
  /\ called = "detectAbstractionType"
  /\ IsObject(metadata)
  /\ ~HasType(metadata.fields)
  /\ content = Str(<<>>)

C13_Original ==
  ClassifiedEmptyUntyped =>
    /\ Returned
    /\ result.value.type = "rule"
    /\ result.value.confidence >= 500

\* the metadata fields that raise the skill or the command score: a
\* non-empty expertise, a trigger that starts with a slash, manual true
HasSkillHint == HasTruthy(metadata.fields, "expertise")
                  /\ Len(metadata.fields["expertise"].val) > 0

HasSlashTrigger ==
  /\ Has(metadata.fields, "triggers")
  /\ \E i \in 1..Len(metadata.fields["triggers"]) :
       StartsWith(metadata.fields["triggers"][i], <<"/">>)

HasManualFlag == Has(metadata.fields, "manual") /\ metadata.fields["manual"] = TRUE

HasAlwaysApplyFlag ==
  Has(metadata.fields, "alwaysApply") /\ metadata.fields["alwaysApply"] = TRUE

\* Amended: empty content without a declared type is a rule, with a
\* confidence of at least 0.5, when the metadata has no non-empty expertise,
\* no trigger that starts with a slash and no manual flag; a non-empty
\* expertise or a slash trigger makes it a skill or a command with
\* confidence 1.0, and the manual flag alone makes it a command unless
\* alwaysApply is true.
C13_EmptyContentFallsBackToRule ==
  ClassifiedEmptyUntyped =>
    /\ Returned
    /\ ~(HasSkillHint \/ HasSlashTrigger \/ HasManualFlag) =>
         /\ result.value.type = "rule"
         /\ result.value.confidence = IF HasAlwaysApplyFlag THEN 1000 ELSE 500
    /\ (HasSkillHint \/ HasSlashTrigger) =>
         /\ result.value.type \in {"skill", "command"}
         /\ result.value.confidence = 1000
    /\ (HasManualFlag /\ ~HasSkillHint /\ ~HasSlashTrigger) =>
         /\ result.value.type = (IF HasAlwaysApplyFlag THEN "rule" ELSE "command")
         /\ result.value.confidence = 1000

\* the fall-back proper: no field but the id, every score zero before the floor
C13_Witness ==
  /\ ClassifiedEmptyUntyped
  /\ DOMAIN metadata.fields = {"id"}
  /\ result.value.type = "rule"
  /\ result.value.confidence = 500

\* the expertise field alone makes the empty document a skill
C13_WitnessSkill ==
  /\ ClassifiedEmptyUntyped
  /\ DOMAIN metadata.fields = {"id", "expertise"}
  /\ result.value.type = "skill"

(***************************************************************************)
(* C14.  The confidence returned by detectAbstractionType is always within *)
(* [0,1], for every document (explicit type or not, any combination of     *)
(* content patterns, structural boosts and metadata boosts), and the rule  *)
(* score after scoring is never below 0.3.                                 *)
(***************************************************************************)
Classified == called = "detectAbstractionType" /\ Returned

\* the scores detectAbstractionType computes when no type is declared
ScoresOfDocument ==
  calculateTypeScores(analyzeRuleContent(content.val), analyzeMetadata(metadata.fields))

\* the scores of the document before normalisation and floor
RawScoresOfDocument ==
  RawScores(analyzeRuleContent(content.val), analyzeMetadata(metadata.fields))

C14_ConfidenceInUnitInterval ==
  Classified =>
    /\ result.value.confidence >= 0
    /\ result.value.confidence <= 1000
    /\ ~DeclaresType =>
         Let(ScoresOfDocument, LAMBDA scores :
           /\ scores.rule >= 300
           /\ \A type \in CategoryNames : scores[type] >= 0 /\ scores[type] <= 1000)

\* the floor acts: structural and metadata boosts on other categories, a
\* rule score of zero before the floor and of 0.3 after it
C14_Witness ==
  /\ Classified
  /\ ~DeclaresType
  /\ RawScoresOfDocument.rule = 0
  /\ RawScoresOfDocument.command > 0
  /\ RawScoresOfDocument.skill > 0
  /\ "slashCommand" \in SeqRange(analyzeRuleContent(content.val).structuralFeatures)
  /\ HasTruthy(metadata.fields, "expertise")
  /\ ScoresOfDocument.rule = 300
  /\ result.value.confidence = 1000

(***************************************************************************)
(* C15.  Classification and validation are deterministic and keep no       *)
(* hidden state: a second call of detectAbstractionType,                   *)
(* validateAnyAbstraction or validateAbstractionGroup on the same input    *)
(* yields the result of the first (same type, confidence and indicator     *)
(* list; same errors, warnings and suggestions in the same order, or the   *)
(* same exception).  A call writes nothing but its own outcome, so calls   *)
(* on other inputs in between are stuttering steps of this state.          *)
(***************************************************************************)
CalledTwice == previous # NoResult

C15_WitnessClassifier ==
  /\ CalledTwice
  /\ called = "detectAbstractionType"
  /\ Returned
  /\ ~DeclaresType
  /\ Len(result.value.indicators) > 1

C15_WitnessGroup ==
  /\ CalledTwice
  /\ called = "validateAbstractionGroup"
  /\ Len(abstractions) > 1
  /\ result.value.errors # <<>>

(***************************************************************************)
(* C16.  validateSubAgent treats an unknown model value and tool names     *)
(* outside the known allow-list as warnings, not errors: for a subagent    *)
(* with isolatedContext true and no alwaysApply, a model outside the known *)
(* list or unknown tools add entries to warnings only and the result stays *)
(* valid.                                                                  *)
(***************************************************************************)
ValidatedSubAgent ==
  called = "validateSubAgent" /\ IsObject(metadata) /\ IsString(content)

IsolatedWithoutAlwaysApply ==
  /\ Has(metadata.fields, "isolatedContext")
  /\ metadata.fields["isolatedContext"] = TRUE
  /\ ~Has(metadata.fields, "alwaysApply")

UnknownModel ==
  /\ ~StringFalsy(metadata.fields, "model")
  /\ metadata.fields["model"] \notin VALID_MODELS

UnknownTools ==
  /\ Has(metadata.fields, "tools")
  /\ \E i \in 1..Len(metadata.fields["tools"]) : metadata.fields["tools"][i] \notin KNOWN_TOOLS

C16_WitnessModel ==
  /\ ValidatedSubAgent
  /\ Returned
  /\ IsolatedWithoutAlwaysApply
  /\ UnknownModel
  /\ ~result.value.valid
  /\ HasCode(result.value.errors, "SUBAGENT_INVALID_MODEL")

(***************************************************************************)
(* C17.  validateSubAgent reports the isolatedContext requirement with     *)
(* exactly one of two distinct codes: SUBAGENT_MISSING_ISOLATION when the  *)
(* field is absent, SUBAGENT_FALSE_ISOLATION when it is present but not    *)
(* true, and neither when it is true; independently, alwaysApply === true  *)
(* always adds a SUBAGENT_RULE_CONFLICT error, also when isolatedContext   *)
(* is true.                                                                *)
(***************************************************************************)
IsolationCodesAsSpecified ==
  /\ Returned
  /\ CountCode(result.value.errors, "SUBAGENT_MISSING_ISOLATION")
       = (IF ~Has(metadata.fields, "isolatedContext") THEN 1 ELSE 0)
  /\ CountCode(result.value.errors, "SUBAGENT_FALSE_ISOLATION")
       = (IF Has(metadata.fields, "isolatedContext")
             /\ metadata.fields["isolatedContext"] # TRUE THEN 1 ELSE 0)
  /\ CountCode(result.value.errors, "SUBAGENT_RULE_CONFLICT")
       = (IF Has(metadata.fields, "alwaysApply")
             /\ metadata.fields["alwaysApply"] = TRUE THEN 1 ELSE 0)
  /\ \A i \in 1..Len(result.value.errors) :
       result.value.errors[i].code \in {"SUBAGENT_MISSING_ISOLATION", "SUBAGENT_FALSE_ISOLATION"}
         => result.value.errors[i].field = "isolatedContext"

C17_IsolationCodes == ValidatedSubAgent => IsolationCodesAsSpecified

\* the codes are as specified in every result that is returned, that is
\* when more than five tools are declared
C17_HoldsWhenReturned ==
  (ValidatedSubAgent /\ Returned) => IsolationCodesAsSpecified

\* isolatedContext true and alwaysApply true give the conflict error when
\* the call returns
C17_ReachedConflict ==
  /\ ValidatedSubAgent
  /\ Returned
  /\ Has(metadata.fields, "isolatedContext") /\ metadata.fields["isolatedContext"] = TRUE
  /\ HasCode(result.value.errors, "SUBAGENT_RULE_CONFLICT")
  /\ Len(result.value.errors) = 1

(***************************************************************************)
(* C18.  validateSkill called with metadata that has no expertise field    *)
(* and content free of isolation and trigger phrases returns exactly one   *)
(* error, with code SKILL_MISSING_EXPERTISE and field 'expertise'; for any *)
(* input the expertise field produces at most one error,                   *)
(* SKILL_MISSING_EXPERTISE when absent and SKILL_EMPTY_EXPERTISE when      *)
(* present but not a non-empty array, never both.                          *)
(***************************************************************************)
ValidatedSkill ==
  called = "validateSkill" /\ IsObject(metadata) /\ IsString(content)

\* the content has none of the phrases that validateSkill rejects
FreeOfIsolationAndTrigger ==
  LET lowerContent == ToLowerCase(content.val)
  IN /\ ~SomeIncluded(lowerContent, isolationPatterns)
     /\ ~SlashLowerRegex(lowerContent)
     /\ ~Includes(lowerContent, <<"w","h","e","n"," ","u","s","e","r"," ","t","y","p","e","s">>)
     /\ ~Includes(lowerContent, <<"t","r","i","g","g","e","r",":">>)
     /\ ~Includes(lowerContent, <<"c","o","m","m","a","n","d",":">>)

ExpertiseAbsent == ~Has(metadata.fields, "expertise")

ExpertiseIsNonEmptyArray ==
  /\ Has(metadata.fields, "expertise")
  /\ metadata.fields["expertise"].kind = "array"
  /\ Len(metadata.fields["expertise"].val) > 0

ExpertiseErrors ==
  LET onExpertise(e) == e.field = "expertise" IN SelectSeq(result.value.errors, onExpertise)

C18_Original ==
  ValidatedSkill =>
    /\ Returned
    /\ (ExpertiseAbsent /\ FreeOfIsolationAndTrigger) =>
         /\ Len(result.value.errors) = 1
         /\ result.value.errors[1].code = "SKILL_MISSING_EXPERTISE"
         /\ result.value.errors[1].field = "expertise"
    /\ Len(ExpertiseErrors) <= 1
    /\ HasCode(ExpertiseErrors, "SKILL_MISSING_EXPERTISE") <=> ExpertiseAbsent
    /\ HasCode(ExpertiseErrors, "SKILL_EMPTY_EXPERTISE")
         <=> (~ExpertiseAbsent /\ ~ExpertiseIsNonEmptyArray)

\* metadata.portability is absent, empty or one of the valid values
PortabilityAccepted ==
  \/ StringFalsy(metadata.fields, "portability")
  \/ metadata.fields["portability"] \in VALID_PORTABILITY

\* !metadata.expertise: the field is absent or holds a falsy value
ExpertiseFalsy == ~HasTruthy(metadata.fields, "expertise")

\* Amended: exactly one error, SKILL_MISSING_EXPERTISE on field 'expertise',
\* when furthermore the portability is absent or valid; the expertise field
\* produces at most one error, SKILL_MISSING_EXPERTISE when it is absent or
\* falsy (an empty string), SKILL_EMPTY_EXPERTISE when it is truthy but not
\* a non-empty array, never both.
C18_ExpertiseErrors ==
  ValidatedSkill =>
    /\ Returned
    /\ (ExpertiseAbsent /\ FreeOfIsolationAndTrigger /\ PortabilityAccepted) =>
         /\ Len(result.value.errors) = 1
         /\ result.value.errors[1].code = "SKILL_MISSING_EXPERTISE"
         /\ result.value.errors[1].field = "expertise"
    /\ Len(ExpertiseErrors) <= 1
    /\ HasCode(ExpertiseErrors, "SKILL_MISSING_EXPERTISE") <=> ExpertiseFalsy
    /\ HasCode(ExpertiseErrors, "SKILL_EMPTY_EXPERTISE")
         <=> (~ExpertiseFalsy /\ ~ExpertiseIsNonEmptyArray)

\* the case of the repository's test: no expertise, plain content
C18_Witness ==
  /\ ValidatedSkill
  /\ DOMAIN metadata.fields = {"id", "type"}
  /\ content.val # <<>>
  /\ FreeOfIsolationAndTrigger
  /\ Len(result.value.errors) = 1
  /\ result.value.errors[1].code = "SKILL_MISSING_EXPERTISE"

\* no expertise and an invalid portability: two errors
C18_WitnessPortability ==
  /\ ValidatedSkill
  /\ ExpertiseAbsent
  /\ FreeOfIsolationAndTrigger
  /\ ~PortabilityAccepted
  /\ Len(result.value.errors) = 2

\* an expertise that is the empty string is reported as missing
C18_WitnessEmptyString ==
  /\ ValidatedSkill
  /\ ~ExpertiseAbsent
  /\ ExpertiseFalsy
  /\ HasCode(result.value.errors, "SKILL_MISSING_EXPERTISE")

\* an expertise that is a non-empty string is reported as empty
C18_WitnessNotAnArray ==
  /\ ValidatedSkill
  /\ ~ExpertiseFalsy
  /\ metadata.fields["expertise"].kind = "string"
  /\ HasCode(result.value.errors, "SKILL_EMPTY_EXPERTISE")

(***************************************************************************)
(* C19.  validateRule raises a RULE_INVALID_SCOPE error whenever           *)
(* metadata.scope is present and is not an array of non-empty strings (for *)
(* example a bare string, an empty string, or an array containing an empty *)
(* or non-string entry), and raises none when scope is absent or is an     *)
(* array of non-empty strings.                                             *)
(***************************************************************************)
ValidatedRule ==
  called = "validateRule" /\ IsObject(metadata) /\ IsString(content)

ScopePresent == Has(metadata.fields, "scope")

Scope == metadata.fields["scope"]

ScopeIsArrayOfNonEmptyStrings ==
  /\ ScopePresent
  /\ Scope.kind = "array"
  /\ \A i \in 1..Len(Scope.val) : Scope.val[i] # <<>>

InvalidScopeRaised == Returned /\ HasCode(result.value.errors, "RULE_INVALID_SCOPE")

C19_Original ==
  ValidatedRule =>
    /\ Returned
    /\ InvalidScopeRaised <=> (ScopePresent /\ ~ScopeIsArrayOfNonEmptyStrings)

\* an entry that is empty or consists of white space only
Blank(entry) == \A i \in 1..Len(entry) : IsSpace(entry[i])

\* Amended: a bare string counts as a list of one scope, and an empty
\* string as no scope at all.  One RULE_INVALID_SCOPE error, on field
\* 'scope', is raised exactly when the scope is a bare string that is not
\* empty but blank, or an array with an entry that is empty or blank; none
\* is raised when the scope is absent, the empty string, a bare string that
\* is not blank, or an array without such an entry (the empty array
\* included).
C19_InvalidScopeIff ==
  ValidatedRule =>
    /\ Returned
    /\ CountCode(result.value.errors, "RULE_INVALID_SCOPE") <= 1
    /\ \A i \in 1..Len(result.value.errors) :
         result.value.errors[i].code = "RULE_INVALID_SCOPE"
           => result.value.errors[i].field = "scope" /\ result.value.errors[i].severity = "error"
    /\ InvalidScopeRaised <=>
         /\ ScopePresent
         /\ \/ Scope.kind = "string" /\ Scope.val # <<>> /\ Blank(Scope.val)
            \/ Scope.kind = "array" /\ \E i \in 1..Len(Scope.val) : Blank(Scope.val[i])

\* the case of the repository's test: an array with an empty entry
C19_Witness ==
  /\ ValidatedRule
  /\ ScopePresent
  /\ Scope.kind = "array"
  /\ \E i \in 1..Len(Scope.val) : Scope.val[i] = <<>>
  /\ InvalidScopeRaised
  /\ ~result.value.valid

\* a bare string is accepted
C19_WitnessBareString ==
  /\ ValidatedRule
  /\ ScopePresent
  /\ Scope.kind = "string"
  /\ Scope.val # <<>>
  /\ ~Blank(Scope.val)
  /\ content.val # <<>>
  /\ ~Blank(content.val)
  /\ result.value.valid

\* the empty string is taken for an absent scope
C19_WitnessEmptyString ==
  /\ ValidatedRule
  /\ ScopePresent
  /\ Scope = Str(<<>>)
  /\ ~InvalidScopeRaised

\* a blank bare string is rejected
C19_WitnessBlankString ==
  /\ ValidatedRule
  /\ ScopePresent
  /\ Scope.kind = "string"
  /\ InvalidScopeRaised

(***************************************************************************)
(* C20.  When no explicit type is given, detectAbstractionType selects a   *)
(* category whose score is the maximum of the four final scores, and when  *)
(* several categories share that maximum it selects the first of them in   *)
(* the fixed order skill, subagent, command, rule; if the selected         *)
(* category is rule, the reported confidence is max(score, 0.5), otherwise *)
(* it is the score itself.                                                 *)
(***************************************************************************)
\* the position of a category in the order skill, subagent, command, rule
OrderOf(type) == CHOOSE i \in 1..4 : AbstractionTypes[i] = type

\* the categories whose final score is the greatest
Winners(scores) ==
  {t \in CategoryNames : \A u \in CategoryNames : scores[u] <= scores[t]}

C20_FirstMaximumWins ==
  (Classified /\ ~DeclaresType) =>
    Let(ScoresOfDocument, LAMBDA scores :
      /\ result.value.type \in Winners(scores)
      /\ \A t \in Winners(scores) : OrderOf(result.value.type) <= OrderOf(t)
      /\ result.value.confidence =
           (IF result.value.type = "rule"
            THEN Max(scores["rule"], 500) ELSE scores[result.value.type]))

\* skill and command share the maximum (the expertise and the trigger boost
\* on an empty content): skill, the first of the two, is selected
C20_Witness ==
  /\ Classified
  /\ ~DeclaresType
  /\ Winners(ScoresOfDocument) = {"skill", "command"}
  /\ result.value.type = "skill"
  /\ result.value.confidence = ScoresOfDocument["skill"]

\* rule is selected with the floor score 0.3 and reported with 0.5
C20_WitnessRuleFloor ==
  /\ Classified
  /\ ~DeclaresType
  /\ Winners(ScoresOfDocument) = {"rule"}
  /\ ScoresOfDocument["rule"] = 300
  /\ result.value.type = "rule"
  /\ result.value.confidence = 500

\* three categories share the maximum
C20_WitnessThreeWay ==
  /\ Classified
  /\ ~DeclaresType
  /\ Cardinality(Winners(ScoresOfDocument)) >= 3
  /\ result.value.type = "skill"

(***************************************************************************)
(* C21.  Before normalization, the raw score of each category equals       *)
(* min(matchedPatternCount * 0.15, 0.7)                                    *)
(*   + min(sumOfKeywordDensityOverMatchedPatterns * 0.05, 0.3)             *)
(* over that category's matched pattern list, plus the structural boosts:  *)
(* +0.4 to command for the slash-command feature, +0.3 to subagent for a   *)
(* step or procedure feature, +0.2 to skill for an example or note         *)
(* feature, +0.2 to subagent for a numbered list; a category with no       *)
(* matched pattern has content score 0.  The statement is about the        *)
(* scores before the metadata boosts, so it is stated on documents whose   *)
(* metadata holds no hint.                                                 *)
(***************************************************************************)
Scored == called = "detectAbstractionType" /\ Returned /\ ~DeclaresType

WithoutHints == DOMAIN metadata.fields = {"id"}

KeywordsOf(type) ==
  CASE type = "skill" -> SKILL_KEYWORDS
    [] type = "subagent" -> SUBAGENT_KEYWORDS
    [] type = "command" -> COMMAND_KEYWORDS
    [] type = "rule" -> RULE_KEYWORDS

\* the keywords of a category present in the lower-cased content
PresentKeywords(type) ==
  {k \in SeqRange(KeywordsOf(type)) : Includes(ToLowerCase(content.val), k)}

\* the content holds a slash-command token
SlashToken == SlashCommandRegex(content.val)

\* the synthetic pattern a slash-command token appends to the command list
SyntheticPatterns(type) == IF type = "command" /\ SlashToken THEN 1 ELSE 0

MatchedPatternCount(type) == Cardinality(PresentKeywords(type)) + SyntheticPatterns(type)

RECURSIVE SumOver(_, _)
SumOver(set, f) ==
  IF set = {} THEN 0
  ELSE LET x == CHOOSE y \in set : TRUE IN f[x] + SumOver(set \ {x}, f)

\* the sum of keywordDensity over the matched patterns: the occurrence
\* counts recorded for the keywords present
RecordedDensity(type) ==
  SumOver(PresentKeywords(type),
          [k \in PresentKeywords(type) |-> MatchCount(ToLowerCase(content.val), k)])

Feature(name) == StructuralTest(name, content.val)

StructuralBoost(type) ==
  CASE type = "command" -> IF Feature("slashCommand") THEN 400 ELSE 0
    [] type = "subagent" ->
         (IF Feature("stepPattern") \/ Feature("procedurePattern") THEN 300 ELSE 0)
         + (IF Feature("numberedList") THEN 200 ELSE 0)
    [] type = "skill" ->
         IF Feature("examplePattern") \/ Feature("notePattern") THEN 200 ELSE 0
    [] type = "rule" -> 0

\* the score as the claim words it, for a given sum of densities
ContentScore(count, density) ==
  IF count = 0 THEN 0 ELSE Min(count * 150, 700) + Min(density * 50, 300)

\* As stated: the density summed is the recorded keyword density.
C21_Original ==
  (Scored /\ WithoutHints) =>
    Let(RawScoresOfDocument, LAMBDA raw :
      \A type \in CategoryNames :
        raw[type] = ContentScore(MatchedPatternCount(type), RecordedDensity(type))
                    + StructuralBoost(type))

\* Amended: as stated, with the synthetic slash-command pattern, for which
\* no density is recorded, counting 1 in the sum of densities.
C21_RawScoreFormula ==
  (Scored /\ WithoutHints) =>
    Let(RawScoresOfDocument, LAMBDA raw :
      \A type \in CategoryNames :
        raw[type] = ContentScore(MatchedPatternCount(type),
                                 RecordedDensity(type) + SyntheticPatterns(type))
                    + StructuralBoost(type))

\* both caps act on the command score: five keywords, each twice
C21_Witness ==
  /\ Scored
  /\ WithoutHints
  /\ MatchedPatternCount("command") = 5
  /\ RecordedDensity("command") = 10
  /\ RawScoresOfDocument.command = 700 + 300

\* a boost on a category without a matched pattern, and the numbered list
C21_WitnessBoostOnly ==
  /\ Scored
  /\ WithoutHints
  /\ MatchedPatternCount("skill") = 0
  /\ RawScoresOfDocument.skill = 200
  /\ RawScoresOfDocument.subagent = 200

\* the slash-command token alone: 0.15 + 0.05 + 0.4
C21_WitnessSlashOnly ==
  /\ Scored
  /\ WithoutHints
  /\ PresentKeywords("command") = {}
  /\ SlashToken
  /\ RawScoresOfDocument.command = 600

(***************************************************************************)
(* C22.  For every metadata hint found by analyzeMetadata when no explicit *)
(* type exists (slash-prefixed trigger, manual flag, alwaysApply flag,     *)
(* non-empty expertise, command/cli scope entry), calculateTypeScores adds *)
(* metadataConfidence * 0.3 (half that for the manual hint) to the raw     *)
(* score of the category that hint implies: command for slash triggers,    *)
(* manual and command-related scope, rule for alwaysApply, skill for       *)
(* expertise; metadataConfidence is the maximum, not the sum, of the       *)
(* confidences of the hints found.                                         *)
(***************************************************************************)
HasCommandScope ==
  /\ HasTruthy(metadata.fields, "scope")
  /\ \E i \in 1..Len(ScopeList(metadata.fields["scope"])) :
       \/ Includes(ScopeList(metadata.fields["scope"])[i], <<"c","o","m","m","a","n","d">>)
       \/ Includes(ScopeList(metadata.fields["scope"])[i], <<"c","l","i">>)

\* the confidences of the hints found, in thousandths
HintConfidences ==
  (IF HasSlashTrigger THEN {800} ELSE {})
  \cup (IF HasManualFlag THEN {600} ELSE {})
  \cup (IF HasAlwaysApplyFlag THEN {700} ELSE {})
  \cup (IF HasSkillHint THEN {800} ELSE {})
  \cup (IF HasCommandScope THEN {600} ELSE {})

MetadataConfidence ==
  IF HintConfidences = {} THEN 0
  ELSE CHOOSE c \in HintConfidences : \A d \in HintConfidences : d <= c

\* metadataConfidence * 0.3
FullBoost == (MetadataConfidence * 3) \div 10

\* a boost when the hint is found
Boost(found, amount) == IF found THEN amount ELSE 0

\* the boosts of a category, as stated
StatedBoost(type) ==
  CASE type = "command" ->
         Boost(HasSlashTrigger, FullBoost) + Boost(HasManualFlag, FullBoost \div 2)
         + Boost(HasCommandScope, FullBoost)
    [] type = "rule" -> Boost(HasAlwaysApplyFlag, FullBoost)
    [] type = "skill" -> Boost(HasSkillHint, FullBoost)
    [] type = "subagent" -> 0

\* the raw score of a category without metadata boosts (C21)
UnboostedScore(type) ==
  ContentScore(MatchedPatternCount(type), RecordedDensity(type) + SyntheticPatterns(type))
  + StructuralBoost(type)

C22_MetadataBoosts ==
  Scored =>
    Let(RawScoresOfDocument, LAMBDA raw :
      \A type \in CategoryNames : raw[type] = UnboostedScore(type) + StatedBoost(type))

\* the boosts are as stated on every document without a command-related scope
C22_HoldsWithoutScopeHint ==
  (Scored /\ ~HasCommandScope) =>
    Let(RawScoresOfDocument, LAMBDA raw :
      \A type \in CategoryNames : raw[type] = UnboostedScore(type) + StatedBoost(type))

\* the command-related scope raises the confidence and boosts no category
C22_ScopeHintBoostsNothing ==
  (Scored /\ HasCommandScope) =>
    Let(RawScoresOfDocument, LAMBDA raw :
      /\ raw.command = UnboostedScore("command") + StatedBoost("command") - FullBoost
      /\ \A type \in CategoryNames \ {"command"} :
           raw[type] = UnboostedScore(type) + StatedBoost(type))

\* the scope hint alone on an empty content: no score, the fall-back to rule
C22_ReachedScopeAlone ==
  /\ Scored
  /\ DOMAIN metadata.fields = {"id", "scope"}
  /\ HasCommandScope
  /\ content.val = <<>>
  /\ RawScoresOfDocument.command = 0
  /\ result.value.type = "rule"
  /\ result.value.confidence = 500

\* the maximum of the confidences, and half of it for the manual flag
C22_ReachedHalfBoost ==
  /\ Scored
  /\ DOMAIN metadata.fields = {"id", "manual", "alwaysApply"}
  /\ content.val = <<>>
  /\ RawScoresOfDocument.command = 105
  /\ RawScoresOfDocument.rule = 210

(***************************************************************************)
(* C23.  validateAbstractionGroup terminates on every batch, including     *)
(* cyclic and self-referential dependency graphs: the depth-first search   *)
(* expands each node at most once, because a node enters visited before       *)
(* its dependencies are followed and a visited node is never expanded         *)
(* again.                                                                  *)
(***************************************************************************)
TraversalReturned == called = "validateAbstractionGroup" /\ Returned

\* the nodes whose dependencies are being or have been followed
Expanded == {frames[i].nodeId : i \in 1..Len(frames)}

\* a step that starts following the dependencies of a node
Expands(nodeId) ==
  /\ Len(frames') = Len(frames) + 1
  /\ frames'[Len(frames')].nodeId = nodeId

NodeIds ==
  {dependencyGraph[i].key : i \in 1..Len(dependencyGraph)}
  \cup UNION {SeqRange(dependencyGraph[i].value) : i \in 1..Len(dependencyGraph)}

ExpandsUnvisitedOnly ==
  /\ visitedSet \subseteq visitedSet'
  /\ \A nodeId \in NodeIds :
       Expands(nodeId) => nodeId \notin visitedSet /\ nodeId \in visitedSet'

C23_StepsAgreeWithRecursion ==
  TraversalReturned => result = Return(validateAbstractionGroup(abstractions))

C23_WitnessSelfReference ==
  /\ TraversalReturned
  /\ cycleFound
  /\ Cardinality(visitedSet) = 1

\* a node reached a second time, through another dependent, is not expanded
C23_WitnessSkipsVisited ==
  /\ Traversing
  /\ frames # <<>>
  /\ Top.next > 1
  /\ DepsGet(dependencyGraph, Top.nodeId)[Top.next - 1] \in visitedSet \ recursionSet
  /\ DepsGet(dependencyGraph, Top.nodeId)[Top.next - 1] \notin Expanded

(***************************************************************************)
(* C24.  When no explicit type is given, the confidence returned by        *)
(* detectAbstractionType takes only two values: it is exactly 1.0 whenever *)
(* at least one category has a positive raw score, and exactly 0.5 with    *)
(* type 'rule' when all four raw scores are 0; consequently the            *)
(* dispatcher's 'confidence > 0.7' mismatch test holds exactly when the    *)
(* stripped document carries any content or metadata signal.               *)
(***************************************************************************)
\* the document without its type field, as the dispatcher classifies it
StrippedFields == WithoutType(metadata.fields)

\* SignalExtractor records something for the content: a pattern of one of
\* the four lists or one of the eight structural features
ContentSignal ==
  \/ \E type \in CategoryNames : MatchedPatternCount(type) > 0
  \/ \E name \in SeqRange(STRUCTURAL_PATTERNS) : Feature(name)

\* analyzeMetadata finds a hint
MetadataSignal == HintConfidences # {}

\* a signal that enters a score: a keyword, a slash-command token, a step,
\* procedure, example or note marker, a numbered list; a slash trigger, the
\* manual or alwaysApply flag, a non-empty expertise
ScoringSignal ==
  \/ \E type \in CategoryNames : MatchedPatternCount(type) > 0
  \/ \E name \in {"slashCommand", "stepPattern", "procedurePattern",
                  "examplePattern", "notePattern", "numberedList"} : Feature(name)
  \/ HasSlashTrigger \/ HasManualFlag \/ HasAlwaysApplyFlag \/ HasSkillHint

\* the scores, before normalisation, of the stripped document
StrippedRawScores ==
  RawScores(analyzeRuleContent(content.val), analyzeMetadata(StrippedFields))

SomeRawScorePositive(raw) == \E type \in CategoryNames : raw[type] > 0

\* the two values of the confidence, for a given reading of 'signal'
TwoConfidences(signal) ==
  Scored =>
    Let(RawScoresOfDocument, LAMBDA raw :
      /\ result.value.confidence \in {500, 1000}
      /\ SomeRawScorePositive(raw) => result.value.confidence = 1000
      /\ ~SomeRawScorePositive(raw) =>
           result.value.confidence = 500 /\ result.value.type = "rule"
      /\ result.value.confidence > 700 <=> signal)

\* the mismatch warning of the dispatcher, for a given reading of 'signal'
MismatchTestIsSignal(signal) ==
  (DispatchedOnDocument /\ Returned /\ DeclaresType) =>
    (MismatchWarned <=>
       (detectType(StrippedFields, content.val).type # DeclaredType /\ signal))

\* As stated: any signal the two analyses record.
C24_Original ==
  /\ TwoConfidences(ContentSignal \/ MetadataSignal)
  /\ MismatchTestIsSignal(ContentSignal \/ MetadataSignal)

\* Amended: the confidence is 1.0 exactly when the document carries a
\* signal that enters a score; a bullet list, a fenced code block and a
\* command-related scope are recorded and enter none.
C24_ConfidenceIsOneOrHalf ==
  /\ TwoConfidences(ScoringSignal)
  /\ MismatchTestIsSignal(ScoringSignal)

\* the stronger case of the first part: a positive raw score, confidence 1.0
C24_Witness ==
  /\ Scored
  /\ SomeRawScorePositive(RawScoresOfDocument)
  /\ RawScoresOfDocument.rule = 0
  /\ result.value.type # "rule"
  /\ result.value.confidence = 1000

\* a bullet list and nothing else: a signal recorded, every raw score 0
C24_WitnessBulletList ==
  /\ Scored
  /\ WithoutHints
  /\ Feature("bulletList")
  /\ ~SomeRawScorePositive(RawScoresOfDocument)
  /\ result.value.type = "rule"
  /\ result.value.confidence = 500

\* the dispatcher warns: declared a rule, classified a skill by its expertise
C24_WitnessMismatch ==
  /\ DispatchedOnDocument
  /\ Returned
  /\ DeclaresType
  /\ content.val = <<>>
  /\ HasSkillHint
  /\ MismatchWarned

\* the dispatcher on a bullet list declared a skill: classified a rule with
\* confidence 0.5, no warning
C24_WitnessNoMismatch ==
  /\ DispatchedOnDocument
  /\ Returned
  /\ DeclaresType
  /\ DeclaredType = "skill"
  /\ DOMAIN metadata.fields = {"id", "type"}
  /\ Feature("bulletList")
  /\ detectType(StrippedFields, content.val).type = "rule"
  /\ ~MismatchWarned

(***************************************************************************)
(* C25.  The document id named in the CIRCULAR_DEPENDENCY error message    *)
(* ('Circular dependency detected involving "<id>"') is always a node that *)
(* lies on a dependency cycle, not merely a node from which a cycle is     *)
(* reachable.                                                              *)
(***************************************************************************)
Successors(n) == {k \in Nodes : DependsOn(n, k)}

\* the nodes reached from a set of nodes in at most the given number of steps
RECURSIVE ReachedWithin(_, _)
ReachedWithin(from, steps) ==
  IF steps = 0 THEN from
  ELSE ReachedWithin(from \cup UNION {Successors(n) : n \in from}, steps - 1)

\* the nodes reached from a node by one edge or more
ReachableFrom(n) == ReachedWithin(Successors(n), Cardinality(Nodes))

OnCycle(n) == n \in ReachableFrom(n)

CircularIssues ==
  LET circular(e) == e.code = "CIRCULAR_DEPENDENCY"
  IN SelectSeq(result.value.errors, circular)

\* the id the message names
NamedInCircularError(n) ==
  \E i \in 1..Len(CircularIssues) : CircularIssues[i].subject = <<n>>

C25_NamedNodeOnCycle ==
  GroupReturned => \A n \in Nodes : NamedInCircularError(n) => OnCycle(n)

\* the node named is one from which a cycle is reachable
C25_NamedNodeReachesCycle ==
  GroupReturned =>
    \A n \in Nodes :
      NamedInCircularError(n) => \E k \in {n} \cup ReachableFrom(n) : OnCycle(k)

\* a document that depends on a self-dependent one is named, off the cycle
C25_ReachedOffCycle ==
  /\ GroupReturned
  /\ \E n, k \in Ids :
       /\ n # k
       /\ Successors(n) = {k}
       /\ Successors(k) = {k}
       /\ NamedInCircularError(n)
       /\ ~OnCycle(n)

\* a node of a two-node cycle is named
C25_ReachedOnCycle ==
  /\ GroupReturned
  /\ \E n, k \in Ids :
       n # k /\ DependsOn(n, k) /\ DependsOn(k, n) /\ NamedInCircularError(n)

(***************************************************************************)
(* C26.  validateAbstractionGroup emits a RULE_SCOPE_CONFLICT warning for  *)
(* a scope only if at least two different always-apply rule documents of   *)
(* the batch claim that scope; a single rule that lists the same scope     *)
(* more than once in its own scope array never conflicts with itself,      *)
(* whatever other always-apply rules are in the batch.                     *)
(***************************************************************************)
ScopeConflictWarned(s) ==
  \E n \in 1..Len(result.value.warnings) :
    /\ result.value.warnings[n].code = "RULE_SCOPE_CONFLICT"
    /\ result.value.warnings[n].text = s

C26_ConflictNeedsTwoRules ==
  GroupReturned =>
    \A s \in AllScopes : ScopeConflictWarned(s) => Cardinality(RulesClaiming(s)) >= 2

\* the document lists a scope twice in its scope array
ListsScopeTwice(i) ==
  /\ DocDeclares(i, "scope")
  /\ abstractions[i].metadata["scope"].kind = "array"
  /\ \E p, q \in 1..Len(abstractions[i].metadata["scope"].val) :
       p # q /\ abstractions[i].metadata["scope"].val[p]
                  = abstractions[i].metadata["scope"].val[q]

\* the claim holds on the batches in which no always-apply rule lists a
\* scope twice
C26_HoldsWithoutRepeatedScope ==
  (\A i \in AlwaysApplyRuleDocs : ~ListsScopeTwice(i)) => C26_ConflictNeedsTwoRules

\* a rule that lists 's' twice, next to a rule of another scope: the
\* warning for 's' lists the id of the first rule twice
C26_ReachedSelfConflict ==
  /\ GroupReturned
  /\ \E i \in AlwaysApplyRuleDocs :
       /\ ListsScopeTwice(i)
       /\ \E s \in ScopesOf(i) :
            /\ RulesClaiming(s) = {i}
            /\ \E n \in 1..Len(result.value.warnings) :
                 /\ result.value.warnings[n].code = "RULE_SCOPE_CONFLICT"
                 /\ result.value.warnings[n].text = s
                 /\ result.value.warnings[n].list = <<DocId(i), DocId(i)>>

\* the rule that lists a scope twice is the only always-apply rule: no warning
C26_ReachedAloneNoWarning ==
  /\ GroupReturned
  /\ Cardinality(AlwaysApplyRuleDocs) = 1
  /\ \E i \in AlwaysApplyRuleDocs : ListsScopeTwice(i)
  /\ Len(abstractions) > 1
  /\ result.value.warnings = <<>>

(***************************************************************************)
(* C27.  Trigger-collision detection in validateAbstractionGroup does not  *)
(* depend on document ids or on document order: whenever two documents     *)
(* with metadata.type 'command' declare the same trigger, a                *)
(* COMMAND_TRIGGER_CONFLICT error is reported, also when the first         *)
(* claimant's id is missing or an empty string, and the number of such     *)
(* errors is the same for every permutation of the batch.                  *)
(***************************************************************************)
\* the orders in which the documents of the batch can be handed in
Orders ==
  {p \in [Docs -> Docs] : \A i, j \in Docs : i # j => p[i] # p[j]}

Permuted(p) == [i \in Docs |-> abstractions[p[i]]]

TriggerConflicts(res) == CountCode(res.errors, "COMMAND_TRIGGER_CONFLICT")

C27_TriggerConflictAnyIdAnyOrder ==
  GroupReturned =>
    /\ \A t \in DeclaredTriggers :
         Cardinality(CommandsDeclaring(t)) >= 2 => ConflictsOn(t) >= 1
    /\ \A p \in Orders :
         TriggerConflicts(validateAbstractionGroup(Permuted(p)))
           = TriggerConflicts(result.value)

\* the claim holds on the batches whose commands all have a non-empty id
C27_HoldsOnNonEmptyIds ==
  (\A i \in Docs : DocId(i) # "") => C27_TriggerConflictAnyIdAnyOrder

\* two commands on one trigger, the first with an empty id: no error, and
\* one error when they are handed in the other way round
C27_ReachedSilentCollision ==
  /\ GroupReturned
  /\ Len(abstractions) = 2
  /\ DocId(1) = ""
  /\ DocId(2) # ""
  /\ \E t \in DeclaredTriggers : CommandsDeclaring(t) = {1, 2}
  /\ TriggerConflicts(result.value) = 0
  /\ TriggerConflicts(validateAbstractionGroup(<<abstractions[2], abstractions[1]>>)) = 1

(***************************************************************************)
(* C28.  validateCommand reports a defective trigger once: for any         *)
(* metadata the result contains at most one error with field 'trigger'     *)
(* (COMMAND_MISSING_TRIGGER when the trigger is absent, otherwise at most  *)
(* one COMMAND_INVALID_TRIGGER when it does not match                      *)
(* ^/[a-zA-Z][a-zA-Z0-9_-]*$), including for a trigger that does not start *)
(* with '/'.                                                               *)
(***************************************************************************)
ValidatedCommand == called = "validateCommand" /\ IsObject(metadata) /\ Returned

TriggerErrors ==
  LET onTrigger(e) == e.field = "trigger" IN SelectSeq(result.value.errors, onTrigger)

TriggerAbsent == ~Has(metadata.fields, "trigger") \/ metadata.fields["trigger"] = <<>>

C28_TriggerReportedOnce ==
  ValidatedCommand =>
    /\ Len(TriggerErrors) <= 1
    /\ TriggerAbsent =>
         Len(TriggerErrors) = 1 /\ TriggerErrors[1].code = "COMMAND_MISSING_TRIGGER"
    /\ ~TriggerAbsent =>
         \A i \in 1..Len(TriggerErrors) : TriggerErrors[i].code = "COMMAND_INVALID_TRIGGER"

\* an absent trigger is reported once, as missing
C28_AbsentTriggerReportedOnce ==
  (ValidatedCommand /\ TriggerAbsent) =>
    Len(TriggerErrors) = 1 /\ TriggerErrors[1].code = "COMMAND_MISSING_TRIGGER"

\* a trigger without a leading slash is reported twice
C28_ReachedReportedTwice ==
  /\ ValidatedCommand
  /\ ~TriggerAbsent
  /\ ~StartsWith(metadata.fields["trigger"], <<"/">>)
  /\ Len(TriggerErrors) = 2
  /\ TriggerErrors[1].code = "COMMAND_INVALID_TRIGGER"
  /\ TriggerErrors[2].code = "COMMAND_INVALID_TRIGGER"

(***************************************************************************)
(* C29.  After any sequence of register, unregister and clear calls on a   *)
(* CommandRegistry (failed register calls included), the set of registered *)
(* command names and the set of registered aliases are disjoint: register  *)
(* rejects a command whose name equals an existing command name or an      *)
(* existing alias, and rejects an alias equal to an existing command name  *)
(* or alias, leaving the registry unchanged when it throws.                *)
(***************************************************************************)
Keys(map) == {map[i].key : i \in 1..Len(map)}

CommandNames == Keys(commands)

AliasNames == Keys(aliases)

C29_NamesAndAliasesDisjoint == CommandNames \cap AliasNames = {}

\* the part of the claim the code keeps: a register call that throws leaves
\* both maps as they were, and a register call that returns has met neither
\* an existing command of its name nor an alias of its list in either map
C29_RegisterThrowsBeforeWriting ==
  [][(called' = "register" /\ argument' # <<>>) =>
       /\ result'.kind = "throw" => UNCHANGED <<commands, aliases>>
       /\ result'.kind = "return" =>
            /\ argument'[1] \notin CommandNames
            /\ SeqRange(argument'[2]) \cap (CommandNames \cup AliasNames) = {}]_vars

\* a register call has thrown on a conflict
C29_ReachedRejected ==
  /\ called = "register"
  /\ result.kind = "throw"
  /\ commands # <<>>

\* a command registered under the name of an alias of another command
C29_ReachedNameOfAnotherAlias ==
  /\ called = "register"
  /\ Returned
  /\ argument[1] \in AliasNames
  /\ MapGet(aliases, argument[1]) # argument[1]

\* a command registered with its own name among its aliases
C29_ReachedOwnNameAsAlias ==
  /\ called = "register"
  /\ Returned
  /\ argument[1] \in SeqRange(argument[2])

\* the disjointness holds as long as no register call has named a command
\* after an alias, its own included
NameIsAnAlias ==
  \E i \in 1..Len(commands) :
    \/ commands[i].key \in SeqRange(commands[i].value.aliases)
    \/ commands[i].key \in AliasNames

C29_DisjointUnlessNameIsAnAlias == ~NameIsAnAlias => C29_NamesAndAliasesDisjoint

(***************************************************************************)
(* C30.  In any reachable CommandRegistry state, get(n) and unregister(n)  *)
(* resolve n to the same registered command, so that whenever              *)
(* unregister(n) returns true, has(n) and get(n) afterwards report that n  *)
(* no longer exists, and no alias is left pointing to a command that is    *)
(* not registered.                                                         *)
(***************************************************************************)
\* the command unregister(n) would remove, or undefined
UnregisterTarget(n) ==
  IF MapHas(commands, RealName(Registry, n)) THEN RealName(Registry, n) ELSE Undefined

\* the command get(n) returns, or undefined
GetTarget(n) == get(Registry, n)

ResolveAlike == \A n \in Names : GetTarget(n) = UnregisterTarget(n)

UnregisterReturnedTrue == called = "unregister" /\ result = Return(TRUE)

ReportedGone(n) == ~has(Registry, n) /\ get(Registry, n) = Undefined

NoDanglingAlias == \A i \in 1..Len(aliases) : aliases[i].value \in CommandNames

C30_UnregisterResolvesLikeGet ==
  /\ ResolveAlike
  /\ UnregisterReturnedTrue => ReportedGone(argument[1])
  /\ NoDanglingAlias

\* the part of the claim the code keeps: every alias points to a registered
\* command
C30_NoDanglingAlias == NoDanglingAlias

\* the two lookups agree, and a removed name is gone, when no command is
\* named after an alias and no alias points to the empty name
NamesApart ==
  /\ CommandNames \cap AliasNames = {}
  /\ \A i \in 1..Len(aliases) : aliases[i].value # ""

C30_HoldsWhenNamesApart ==
  /\ NamesApart => ResolveAlike
  /\ [][(NamesApart /\ called' = "unregister" /\ result' = Return(TRUE))
          => (ReportedGone(argument[1]))']_vars

\* unregister(n) has returned true and n is still a registered command
C30_ReachedStillRegistered ==
  /\ UnregisterReturnedTrue
  /\ has(Registry, argument[1])
  /\ get(Registry, argument[1]) = argument[1]

\* an alias of the command named by the empty string: get finds nothing,
\* unregister finds the command
C30_ReachedEmptyNameNotFollowed ==
  \E n \in Names :
    /\ MapHas(aliases, n)
    /\ n \notin CommandNames
    /\ GetTarget(n) = Undefined
    /\ UnregisterTarget(n) = ""

\* unregister has removed a command and another one is left
C30_ReachedRemoved ==
  /\ UnregisterReturnedTrue
  /\ ReportedGone(argument[1])
  /\ commands # <<>>

====
